---- MODULE Spec2Model ----
(***************************************************************************)
(* A model of nbt-ts: the tag tree (NbtTag, NbtCompound, NbtList), the     *)
(* binary stream (NbtBinaryStream) and the file codec (NbtFile).           *)
(*                                                                         *)
(* Three specifications share the module's variables:                      *)
(*   Spec       the tag tree under every public mutation;                  *)
(*   SpecCodec  NbtFile.saveToBuffer / NbtFile.from on bounded trees;      *)
(*   SpecStream NbtBinaryStream typed writes and reads.                    *)
(***************************************************************************)
EXTENDS Integers, Sequences, FiniteSets, TLC

VARIABLES
    name,       \* NbtTag.#name of every tag object
    parent,     \* NbtTag.#parent of every tag object (NoTag = undefined)
    ctags,      \* NbtCompound.#tags: key -> tag, per compound
    ltags,      \* NbtList.#tags: the array, per list
    listType,   \* NbtList.#listType, per list
    last,       \* the last call: operation, receiver, arguments, outcome
    codec,      \* SpecCodec: the file being saved and loaded
    stream,     \* SpecStream: the stream and the last typed access
    scalar      \* SpecScalar: a numeric tag and the last value given to it

vars == <<name, parent, ctags, ltags, listType, last, codec, stream, scalar>>

treeVars == <<name, parent, ctags, ltags, listType>>

-----------------------------------------------------------------------------
(* NbtTagType codes                                                        *)

TagEnd == 0
TagByte == 1
TagShort == 2
TagInt == 3
TagLong == 4
TagFloat == 5
TagDouble == 6
TagByteArray == 7
TagString == 8
TagList == 9
TagCompound == 10
TagIntArray == 11
TagLongArray == 12
TagUnknown == 255

-----------------------------------------------------------------------------
(* NbtBinaryStream                                                         *)
(*                                                                         *)
(* A stream is a record of the class's private fields.  The buffer is the  *)
(* sequence of its bytes (0 .. 255); buffer index i is element i + 1.      *)
(* A 64-bit integer (a bigint) is held as its 8 two's-complement bytes,    *)
(* most significant first: the checker's integers are narrower than 64     *)
(* bits.  Operations return [s, v, err]: the stream afterwards, the value  *)
(* read, and the error thrown ("" when none).                              *)

\* constants.MAX_LENGTH of the platform's buffer module.  It exceeds every
\* index the bounded runs reach.
MAX_LENGTH == 2147483647

EndOfStreamError == "EndOfStreamError"
RangeErr == "RangeError"
PlainError == "Error"
NbtFormatError == "NbtFormatError"

Zeros(n) == [i \in 1 .. n |-> 0]

Max(a, b) == IF a >= b THEN a ELSE b

Ok(s, v) == [s |-> s, v |-> v, err |-> ""]
Fail(s, err) == [s |-> s, v |-> 0, err |-> err]

\* The rest of a method, K, runs on what a call returned unless the call threw.
Then(r, K(_)) == IF r.err # "" THEN r ELSE K(r)

\* new NbtBinaryStream(bigEndian): empty, expandable, capacity 0.
NewStream(bigEndian) ==
    [bigEndian |-> bigEndian, buffer |-> <<>>, capacity |-> 0, expandable |-> TRUE,
     length |-> 0, origin |-> 0, position |-> 0]

\* NbtBinaryStream.from(buffer, bigEndian): a non-resizable view of the buffer.
StreamFrom(buffer, bigEndian) ==
    [bigEndian |-> bigEndian, buffer |-> buffer, capacity |-> Len(buffer),
     expandable |-> FALSE, length |-> Len(buffer), origin |-> 0, position |-> 0]

\* get buffer(): subarray(origin, position)
StreamBuffer(s) ==
    SubSeq(s.buffer, s.origin + 1, IF s.position > Len(s.buffer) THEN Len(s.buffer)
                                   ELSE s.position)

\* set capacity(value)
SetCapacity(s, value) ==
    IF value < 0 THEN Fail(s, RangeErr)
    ELSE IF value < s.length - s.origin THEN Fail(s, RangeErr)
    ELSE IF ~s.expandable /\ value # s.capacity - s.origin THEN Fail(s, PlainError)
    ELSE IF s.expandable /\ value # s.capacity
    THEN Ok([s EXCEPT !.buffer = [i \in 1 .. value |->
                                     IF i <= s.length THEN s.buffer[i] ELSE 0],
                      !.capacity = value], 0)
    ELSE Ok(s, 0)

\* #ensureCapacity(value): v is TRUE when a new buffer was allocated.
ensureCapacity(s, value) ==
    IF value < 0 THEN Fail(s, RangeErr)
    ELSE IF value > s.capacity
    THEN Then(SetCapacity(s, IF s.capacity * 2 > MAX_LENGTH THEN Max(value, MAX_LENGTH)
                             ELSE Max(Max(value, 256), s.capacity * 2)),
              LAMBDA r : Ok(r.s, TRUE))
    ELSE Ok(s, FALSE)

\* No fill at all.
ZeroFillNone(buffer, from, to) == buffer

\* Buffer.fill(0, from, to)
ZeroFill(buffer, from, to) ==
    [i \in 1 .. Len(buffer) |-> IF i > from /\ i <= to THEN 0 ELSE buffer[i]]

\* #enforceConstraints(length)
enforceConstraints(s, length) ==
    IF length < 0 THEN Fail(s, RangeErr)
    ELSE IF s.position + length > MAX_LENGTH THEN Fail(s, EndOfStreamError)
    ELSE IF s.position + length > s.length
    THEN Then(IF s.position + length > s.capacity
              THEN ensureCapacity(s, s.position + length) ELSE Ok(s, FALSE),
              LAMBDA grow :
                  Ok([grow.s EXCEPT
                          !.buffer = IF s.position > s.length /\ ~grow.v
                                     THEN ZeroFill(@, s.length, s.position + length) ELSE @,
                          !.length = s.position + length], 0))
    ELSE Ok(s, 0)

\* A signed byte as the byte stored, and back.
ToU8(v) == IF v < 0 THEN v + 256 ELSE v
ToI8(b) == IF b >= 128 THEN b - 256 ELSE b

\* The bytes of a signed 16-bit and of a signed 32-bit integer, most
\* significant first, and the integers of such bytes.
BytesOf16(v) ==
    LET u == IF v < 0 THEN v + 65536 ELSE v IN <<u \div 256, u % 256>>

BytesOf32(v) ==
    LET low == IF v < 0 THEN (v + 2147483647) + 1 ELSE v
        top == (low \div 16777216) + (IF v < 0 THEN 128 ELSE 0)
    IN <<top, (low \div 65536) % 256, (low \div 256) % 256, low % 256>>

Int16Of(b) == ToI8(b[1]) * 256 + b[2]
UInt16Of(b) == b[1] * 256 + b[2]
Int32Of(b) == ToI8(b[1]) * 16777216 + b[2] * 65536 + b[3] * 256 + b[4]

Reverse(b) == [i \in 1 .. Len(b) |-> b[Len(b) + 1 - i]]

\* The bytes as the stream's endianness orders them.
Ordered(s, bytes) == IF s.bigEndian THEN bytes ELSE Reverse(bytes)

\* Buffer.write*(…, position): the bytes stored at the position, which moves
\* past them.
Store(s, bytes) ==
    [s EXCEPT !.buffer = [i \in 1 .. Len(@) |->
                             IF i > s.position /\ i <= s.position + Len(bytes)
                             THEN bytes[i - s.position] ELSE @[i]],
              !.position = @ + Len(bytes)]

\* The n bytes at the position.
Fetch(s, n) == SubSeq(s.buffer, s.position + 1, s.position + n)

\* writeTagType / writeByte
writeByte(s, value) ==
    Then(enforceConstraints(s, 1),
         LAMBDA r : IF value < -128 \/ value > 127 THEN Fail(r.s, RangeErr)
                    ELSE Ok(Store(r.s, <<ToU8(value)>>), 0))

writeTagType(s, value) == writeByte(s, value)

writeInt16(s, value) ==
    Then(enforceConstraints(s, 2),
         LAMBDA r : IF value < -32768 \/ value > 32767 THEN Fail(r.s, RangeErr)
                    ELSE Ok(Store(r.s, Ordered(s, BytesOf16(value))), 0))

writeInt32(s, value) ==
    Then(enforceConstraints(s, 4),
         LAMBDA r : Ok(Store(r.s, Ordered(s, BytesOf32(value))), 0))

\* The same with the little-endian branch writing little-endian.
Int64StoredOrdered(s, value) == Ordered(s, value)

\* The bytes writeInt64 stores for a bigint: writeBigInt64BE in both branches.
Int64Stored(s, value) == value

writeInt64(s, value) ==
    Then(enforceConstraints(s, 8), LAMBDA r : Ok(Store(r.s, Int64Stored(s, value)), 0))

\* writeString: the uint16 byte length, then the UTF-8 bytes.  A string is
\* the sequence of its code points, all ASCII here, so one byte each.
writeString(s, value) ==
    Then(enforceConstraints(s, 2 + Len(value)),
         LAMBDA r : Ok(Store(r.s, Ordered(s, <<Len(value) \div 256, Len(value) % 256>>)
                                      \o value), 0))

\* readByte
readByte(s) ==
    IF s.position >= s.length THEN Fail(s, EndOfStreamError)
    ELSE Ok([s EXCEPT !.position = @ + 1], ToI8(s.buffer[s.position + 1]))

\* readTagType
readTagType(s) ==
    Then(readByte(s),
         LAMBDA r : IF r.v < 0 THEN Fail(r.s, EndOfStreamError)
                    ELSE IF r.v > TagLongArray THEN Fail(r.s, RangeErr)
                    ELSE r)

readInt16(s) ==
    IF s.length - s.position < 2 THEN Fail(s, EndOfStreamError)
    ELSE Ok([s EXCEPT !.position = @ + 2], Int16Of(Ordered(s, Fetch(s, 2))))

readInt32(s) ==
    IF s.length - s.position < 4 THEN Fail(s, EndOfStreamError)
    ELSE Ok([s EXCEPT !.position = @ + 4], Int32Of(Ordered(s, Fetch(s, 4))))

\* readInt64: readBigInt64BE or readBigInt64LE
readInt64(s) ==
    IF s.length - s.position < 8 THEN Fail(s, EndOfStreamError)
    ELSE Ok([s EXCEPT !.position = @ + 8], Ordered(s, Fetch(s, 8)))

\* Buffer.toString("utf-8", start, end): end is cut at the buffer's end; an
\* ASCII byte is its character, any other byte shows as U+FFFD.
Utf8Text(buffer, start, end) ==
    LET stop == IF end > Len(buffer) THEN Len(buffer) ELSE end
        raw == SubSeq(buffer, start + 1, stop)
    IN [i \in 1 .. Len(raw) |-> IF raw[i] < 128 THEN raw[i] ELSE 65533]

\* readString: the position moves by the length read, wherever that leads.
readString(s) ==
    IF s.length - s.position < 2 THEN Fail(s, EndOfStreamError)
    ELSE Ok([s EXCEPT !.position = @ + 2 + UInt16Of(Ordered(s, Fetch(s, 2)))],
            Utf8Text(s.buffer, s.position + 2,
                     s.position + 2 + UInt16Of(Ordered(s, Fetch(s, 2)))))

\* readBytes(count): as many of the count bytes as are left, as signed bytes.
BytesLeft(s, count) == IF s.length - s.position < count THEN s.length - s.position ELSE count

readBytes(s, count) ==
    IF count < 0 THEN Fail(s, RangeErr)
    ELSE IF BytesLeft(s, count) <= 0 THEN Ok(s, <<>>)
    ELSE Ok([s EXCEPT !.position = @ + BytesLeft(s, count)],
            [i \in 1 .. BytesLeft(s, count) |-> ToI8(s.buffer[s.position + i])])

\* A typed read looking only for the end of the stream, as readByte does.
readFloatingToEnd(s, size) ==
    IF s.position >= s.length THEN Fail(s, EndOfStreamError)
    ELSE Ok([s EXCEPT !.position = @ + size], <<>>)

\* readFloat / readDouble: the value is kept as the size bytes of its IEEE
\* pattern, most significant first.
readFloating(s, size) ==
    IF s.length - s.position < size THEN Fail(s, EndOfStreamError)
    ELSE Ok([s EXCEPT !.position = @ + size], Ordered(s, Fetch(s, size)))

\* SeekOrigin
SeekBegin == 0
SeekCurrent == 1
SeekEnd == 2

\* seek(offset, origin): v is the value returned.
seek(s, offset, origin) ==
    LET base == IF origin = SeekBegin THEN s.origin
                ELSE IF origin = SeekCurrent THEN s.position ELSE s.length
        tempPosition == base + offset
    IN IF offset > MAX_LENGTH THEN Fail(s, RangeErr)
       ELSE IF origin \notin {SeekBegin, SeekCurrent, SeekEnd} THEN Fail(s, PlainError)
       ELSE IF (origin = SeekBegin /\ offset < 0) \/ tempPosition < s.origin
       THEN Fail(s, PlainError)
       ELSE Ok([s EXCEPT !.position = tempPosition], tempPosition)

-----------------------------------------------------------------------------
(* The tag objects of the tree specification                               *)

\* Bounds of the tree specification.
NumTags == 3
MaxPush == 2

\* `undefined` as a value of #parent, and of #name.
NoTag == 0
Undefined == "undefined"

Names == {"a", "b", "c"}

Tags == 1 .. NumTags

\* The class of each object: an NbtCompound, an NbtList, an NbtByte, then
\* further NbtLists.
tagType(t) == IF t = 1 THEN TagCompound ELSE IF t = 3 THEN TagByte ELSE TagList

Compounds == {t \in Tags : tagType(t) = TagCompound}
Lists == {t \in Tags : tagType(t) = TagList}

EmptyMap == [k \in {} |-> NoTag]

\* Map.prototype.delete / Map.prototype.set on a compound's #tags.
MapDelete(m, k) == [x \in (DOMAIN m) \ {k} |-> m[x]]
MapSet(m, k, v) == [x \in (DOMAIN m) \cup {k} |-> IF x = k THEN v ELSE m[x]]

\* NbtCompound.names, NbtCompound.tags, NbtCompound.get
names(c) == DOMAIN ctags[c]
tagsOf(c) == {ctags[c][k] : k \in DOMAIN ctags[c]}
get(c, k) == IF k \in DOMAIN ctags[c] THEN ctags[c][k] ELSE NoTag

\* The members of a list, as a set.
members(l) == {ltags[l][i] : i \in 1 .. Len(ltags[l])}

\* NbtList.indexOf (zero-based; -1 when absent)
indexOf(l, t) ==
    IF t \in members(l)
    THEN (CHOOSE i \in 1 .. Len(ltags[l]) :
              ltags[l][i] = t /\ \A j \in 1 .. (i - 1) : ltags[l][j] # t) - 1
    ELSE -1

\* A call that threw: `last` names the operation and the error thrown, and
\* nothing else changes.
Throw(op, err) ==
    /\ last' = [op |-> op, ok |-> FALSE, err |-> err, ret |-> FALSE]
    /\ UNCHANGED treeVars
    /\ UNCHANGED <<codec, stream, scalar>>

\* A call that returned ret (TRUE for a method that returns nothing).
Return(op, ret) ==
    /\ last' = [op |-> op, ok |-> TRUE, err |-> "", ret |-> ret]
    /\ UNCHANGED <<codec, stream, scalar>>

-----------------------------------------------------------------------------
(* NbtCompound                                                             *)

NoError == ""

\* The four checks of NbtCompound.add, in order: the error thrown, if any.
AddError(c, newTag) ==
    IF newTag = c THEN "Cannot add tag to itself."
    ELSE IF name[newTag] = Undefined THEN "Only named tags are allowed in compound tags."
    ELSE IF parent[newTag] # NoTag THEN "A tag may only be added to one compound/list at a time."
    ELSE IF name[newTag] \in names(c) THEN "A tag with this name already exists in the compound tag."
    ELSE NoError

add(c, newTag) ==
    IF AddError(c, newTag) # NoError
    THEN Throw("add", AddError(c, newTag))
    ELSE /\ ctags' = [ctags EXCEPT ![c] = MapSet(@, name[newTag], newTag)]
         /\ parent' = [parent EXCEPT ![newTag] = c]
         /\ Return("add", TRUE)
         /\ UNCHANGED <<name, ltags, listType>>

\* NbtCompound.clear: the map is emptied, nothing else is touched.
ClearedParents(c) == parent

CompoundClear(c) ==
    /\ ctags' = [ctags EXCEPT ![c] = EmptyMap]
    /\ parent' = ClearedParents(c)
    /\ Return("clear", TRUE)
    /\ UNCHANGED <<name, ltags, listType>>

\* NbtCompound.delete(tagName: string)
DeleteByName(c, tagName) ==
    LET tag == get(c, tagName) IN
    IF tag # NoTag
    THEN /\ ctags' = [ctags EXCEPT ![c] = MapDelete(@, tagName)]
         /\ parent' = [parent EXCEPT ![tag] = NoTag]
         /\ Return("deleteName", TRUE)
         /\ UNCHANGED <<name, ltags, listType>>
    ELSE /\ Return("deleteName", FALSE)
         /\ UNCHANGED treeVars

\* A delete that forgets the back-reference.
DeletedParentKept(nameOrTag) == parent

\* The parent map after NbtCompound.delete(tag: NbtTag) removed the tag.
DeletedParent(nameOrTag) == [parent EXCEPT ![nameOrTag] = NoTag]

\* NbtCompound.delete(tag: NbtTag)
DeleteByTag(c, nameOrTag) ==
    IF name[nameOrTag] = Undefined
    THEN Throw("deleteTag", "Trying to remove an unnamed tag.")
    ELSE IF get(c, name[nameOrTag]) = nameOrTag
    THEN /\ ctags' = [ctags EXCEPT ![c] = MapDelete(@, name[nameOrTag])]
         /\ parent' = DeletedParent(nameOrTag)
         /\ Return("deleteTag", TRUE)
         /\ UNCHANGED <<name, ltags, listType>>
    ELSE /\ Return("deleteTag", FALSE)
         /\ UNCHANGED treeVars

\* NbtCompound.renameTag: "noop", "renamed", or the error thrown.
RenameResult(c, oldName, newName) ==
    IF oldName = newName THEN "noop"
    ELSE IF newName \in names(c)
    THEN "Cannot rename: a tag with the name already exists in this compound."
    ELSE IF get(c, oldName) = NoTag
    THEN "Cannot rename: no tag found in this compound to rename."
    ELSE "renamed"

RenamedMap(c, oldName, newName) ==
    MapSet(MapDelete(ctags[c], oldName), newName, ctags[c][oldName])

renameTag(c, oldName, newName) ==
    LET r == RenameResult(c, oldName, newName) IN
    IF r \notin {"noop", "renamed"}
    THEN Throw("renameTag", r)
    ELSE /\ ctags' = IF r = "noop" THEN ctags
                     ELSE [ctags EXCEPT ![c] = RenamedMap(c, oldName, newName)]
         /\ Return("renameTag", TRUE)
         /\ UNCHANGED <<name, parent, ltags, listType>>

-----------------------------------------------------------------------------
(* NbtTag.name                                                             *)

\* set name(value): "noop" (same name), "assigned" (no compound parent),
\* "renamed" (renameTag went through and the name is assigned), or the error.
SetNameResult(t, value) ==
    IF name[t] = value THEN "noop"
    ELSE IF parent[t] # NoTag /\ tagType(parent[t]) = TagCompound
    THEN IF value = Undefined THEN "Tags inside of an NbtCompound must be named."
         ELSE RenameResult(parent[t], name[t], value)
    ELSE "assigned"

SetName(t, value) ==
    LET r == SetNameResult(t, value) IN
    IF r \notin {"noop", "assigned", "renamed"}
    THEN Throw("setName", r)
    ELSE /\ name' = IF r = "noop" THEN name ELSE [name EXCEPT ![t] = value]
         /\ ctags' = IF r = "renamed"
                     THEN [ctags EXCEPT ![parent[t]] = RenamedMap(parent[t], name[t], value)]
                     ELSE ctags
         /\ Return("setName", TRUE)
         /\ UNCHANGED <<parent, ltags, listType>>

-----------------------------------------------------------------------------
(* NbtList                                                                 *)

\* set listType(value): the error thrown, if any.
ListTypeError(l, value) ==
    IF value = TagEnd /\ Len(ltags[l]) > 0
    THEN "Only empty list tags may have a listType of NbtTagType.End."
    ELSE IF value # TagEnd
            /\ (value < TagByte \/ (value > TagLongArray /\ value # TagUnknown))
    THEN "RangeError: Invalid NbtTagType value"
    ELSE IF Len(ltags[l]) > 0 /\ tagType(ltags[l][1]) # value
    THEN "Given NbtTagType does not match the actual element type"
    ELSE NoError

SetListType(l, value) ==
    IF ListTypeError(l, value) # NoError
    THEN Throw("setListType", ListTypeError(l, value))
    ELSE /\ listType' = [listType EXCEPT ![l] = value]
         /\ Return("setListType", TRUE)
         /\ UNCHANGED <<name, parent, ctags, ltags>>

\* NbtList.clear
ListClear(l) ==
    /\ parent' = [t \in Tags |-> IF t \in members(l) THEN NoTag ELSE parent[t]]
    /\ ltags' = [ltags EXCEPT ![l] = <<>>]
    /\ Return("listClear", TRUE)
    /\ UNCHANGED <<name, ctags, listType>>

\* The same checks without the comparison with the declared type.
ElementErrorUntyped(l, newTag, par, ty) ==
    IF par[newTag] # NoTag THEN "A tag may only be added to one compound/list at a time."
    ELSE IF newTag = l \/ newTag = par[l]
    THEN "A list tag may not be added to itself or its child tag."
    ELSE IF name[newTag] # Undefined
    THEN "Named tag given. A list may only contain unnamed tags."
    ELSE NoError

\* The checks of NbtList.insert, and of one round of NbtList.push, given the
\* parents par and the declared type ty at that point: the error thrown, if any.
ElementError(l, newTag, par, ty) ==
    IF par[newTag] # NoTag THEN "A tag may only be added to one compound/list at a time."
    ELSE IF newTag = l \/ newTag = par[l]
    THEN "A list tag may not be added to itself or its child tag."
    ELSE IF name[newTag] # Undefined
    THEN "Named tag given. A list may only contain unnamed tags."
    ELSE IF ty # TagUnknown /\ tagType(newTag) # ty
    THEN "Items in this list must be of the list's type."
    ELSE NoError

\* Array.prototype.splice(index, 0, x): where a relative index lands.
SpliceStart(index, len) ==
    IF index < 0 THEN (IF len + index < 0 THEN 0 ELSE len + index)
    ELSE IF index > len THEN len ELSE index

SpliceIn(s, index, x) ==
    LET k == SpliceStart(index, Len(s)) IN
    SubSeq(s, 1, k) \o <<x>> \o SubSeq(s, k + 1, Len(s))

\* Array.prototype.splice(index, 1) for a valid index.
SpliceOut(s, index) == SubSeq(s, 1, index) \o SubSeq(s, index + 2, Len(s))

\* NbtList.insert
insert(l, index, newTag) ==
    IF ElementError(l, newTag, parent, listType[l]) # NoError
    THEN Throw("insert", ElementError(l, newTag, parent, listType[l]))
    ELSE /\ ltags' = [ltags EXCEPT ![l] = SpliceIn(@, index, newTag)]
         /\ listType' = IF listType[l] = TagUnknown
                        THEN [listType EXCEPT ![l] = tagType(newTag)]
                        ELSE listType
         /\ parent' = [parent EXCEPT ![newTag] = l]
         /\ Return("insert", TRUE)
         /\ UNCHANGED <<name, ctags>>

\* NbtList.push(...tags): the loop, one round per argument; a round that
\* throws leaves what the earlier rounds did.
RECURSIVE PushLoop(_, _, _, _)
PushLoop(l, tags, i, st) ==
    IF i > Len(tags) THEN st
    ELSE LET newTag == tags[i] IN
         IF ElementError(l, newTag, st.par, st.ty) # NoError
         THEN [st EXCEPT !.err = ElementError(l, newTag, st.par, st.ty)]
         ELSE PushLoop(l, tags, i + 1,
                       [lt |-> Append(st.lt, newTag),
                        par |-> [st.par EXCEPT ![newTag] = l],
                        ty |-> IF st.ty = TagUnknown THEN tagType(newTag) ELSE st.ty,
                        err |-> NoError])

push(l, tags) ==
    LET st == PushLoop(l, tags, 1,
                       [lt |-> ltags[l], par |-> parent, ty |-> listType[l],
                        err |-> NoError])
    IN /\ ltags' = [ltags EXCEPT ![l] = st.lt]
       /\ parent' = st.par
       /\ listType' = [listType EXCEPT ![l] = st.ty]
       /\ last' = [op |-> "push", ok |-> st.err = NoError, err |-> st.err,
                   ret |-> st.err = NoError]
       /\ UNCHANGED <<name, ctags, codec, stream, scalar>>

\* NbtList.removeAt
removeAt(l, index) ==
    IF index < 0 \/ index > Len(ltags[l]) - 1
    THEN Throw("removeAt", "RangeError")
    ELSE /\ ltags' = [ltags EXCEPT ![l] = SpliceOut(@, index)]
         /\ parent' = [parent EXCEPT ![ltags[l][index + 1]] = NoTag]
         /\ Return("removeAt", TRUE)
         /\ UNCHANGED <<name, ctags, listType>>

\* NbtList.remove
remove(l, tag) ==
    LET index == indexOf(l, tag) IN
    IF index < 0
    THEN /\ Return("remove", FALSE)
         /\ UNCHANGED treeVars
    ELSE /\ ltags' = [ltags EXCEPT ![l] = SpliceOut(@, index)]
         /\ parent' = [parent EXCEPT ![ltags[l][index + 1]] = NoTag]
         /\ Return("remove", TRUE)
         /\ UNCHANGED <<name, ctags, listType>>

-----------------------------------------------------------------------------
(* The tree specification                                                  *)

\* The values a caller passes as a listType, valid and not.
ListTypeInputs == {TagEnd, TagByte, TagCompound, TagUnknown, TagLongArray + 1}

PushInputs == UNION {[1 .. n -> Tags] : n \in 1 .. MaxPush}

NoCall == [op |-> "new", ok |-> TRUE, err |-> NoError, ret |-> TRUE]

CodecIdle == [phase |-> "idle"]
StreamIdle == [phase |-> "idle"]
ScalarIdle == [phase |-> "idle"]

\* Every object freshly constructed: no name, no parent, no children.
TreeInit ==
    /\ name = [t \in Tags |-> Undefined]
    /\ parent = [t \in Tags |-> NoTag]
    /\ ctags = [c \in Compounds |-> EmptyMap]
    /\ ltags = [l \in Lists |-> <<>>]
    /\ listType = [l \in Lists |-> TagUnknown]
    /\ last = NoCall

Init == TreeInit /\ codec = CodecIdle /\ stream = StreamIdle /\ scalar = ScalarIdle

Add == \E c \in Compounds, t \in Tags : add(c, t)
Clear == \E c \in Compounds : CompoundClear(c)
DeleteName == \E c \in Compounds, n \in Names : DeleteByName(c, n)
DeleteTag == \E c \in Compounds, t \in Tags : DeleteByTag(c, t)
RenameTag == \E c \in Compounds, o \in Names, n \in Names : renameTag(c, o, n)
NameAssign == \E t \in Tags, v \in Names \cup {Undefined} : SetName(t, v)
ListTypeAssign == \E l \in Lists, v \in ListTypeInputs : SetListType(l, v)
Push == \E l \in Lists, ts \in PushInputs : push(l, ts)
Insert == \E l \in Lists, t \in Tags : \E i \in -1 .. (Len(ltags[l]) + 1) : insert(l, i, t)
Remove == \E l \in Lists, t \in Tags : remove(l, t)
RemoveAt == \E l \in Lists : \E i \in -1 .. Len(ltags[l]) : removeAt(l, i)
ClearList == \E l \in Lists : ListClear(l)

Next ==
    \/ Add \/ Clear \/ DeleteName \/ DeleteTag \/ RenameTag \/ NameAssign
    \/ ListTypeAssign \/ Push \/ Insert \/ Remove \/ RemoveAt \/ ClearList

Spec == Init /\ [][Next]_vars

\* The tree under every operation but NbtCompound.clear.
NextKeepingCompounds ==
    \/ Add \/ DeleteName \/ DeleteTag \/ RenameTag \/ NameAssign
    \/ ListTypeAssign \/ Push \/ Insert \/ Remove \/ RemoveAt \/ ClearList

SpecNoCompoundClear == Init /\ [][NextKeepingCompounds]_vars

-----------------------------------------------------------------------------
(* Properties of the tag tree                                              *)

\* The tags one step up the parent chain from those of S.
Up(S) == {parent[x] : x \in S} \ {NoTag}

RECURSIVE UpN(_, _)
UpN(S, n) == IF n = 0 THEN {} ELSE Up(S) \cup UpN(Up(S), n - 1)

\* Every tag above t in the parent chain.
Ancestors(t) == UpN({t}, NumTags)

\* The children a container currently holds.
Children(k) == IF k \in Compounds THEN tagsOf(k) ELSE IF k \in Lists THEN members(k) ELSE {}

Containers == Compounds \cup Lists

\* C1: a compound never contains two children whose names (tag.name) are
\* identical, after any sequence of add, delete, clear, renameTag and name
\* assignments.
C1_UniqueChildNames ==
    \A c \in Compounds : \A k1 \in names(c), k2 \in names(c) :
        k1 # k2 => name[ctags[c][k1]] # name[ctags[c][k2]]

\* C2: after any sequence of compound add/delete and list
\* push/insert/remove/removeAt, every tag's parent is undefined or a container
\* whose children include the tag, and every child of a container has that
\* container as its parent.
C2_ParentMatchesChildren ==
    /\ \A x \in Tags : parent[x] = NoTag
                       \/ (parent[x] \in Containers /\ x \in Children(parent[x]))
    /\ \A k \in Containers : \A x \in Children(k) : parent[x] = k

\* C2 witness: a delete has just removed a child while another container still
\* holds one.
C2_Witness ==
    /\ last.op = "deleteTag" /\ last.ret
    /\ \E l \in Lists : Len(ltags[l]) > 0
    /\ \E x \in Tags : parent[x] = NoTag /\ name[x] # Undefined

\* C3: the tag tree stays acyclic: no tag is its own ancestor through the
\* parent chain (so adding a container's ancestor to it must have failed).
C3_Acyclic == \A t \in Tags : t \notin Ancestors(t)

\* C4: every member of a list has the list's listType; a push or insert of a
\* tag whose type differs from the declared type fails, and so does assigning a
\* listType that differs from the type of the existing members.
C4_Homogeneous ==
    \A l \in Lists : \A i \in 1 .. Len(ltags[l]) : tagType(ltags[l][i]) = listType[l]

C4_MismatchFails ==
    \A l \in Lists :
        /\ \A t \in Tags :
              (listType[l] # TagUnknown /\ tagType(t) # listType[l]) =>
                  /\ push(l, <<t>>) => (~last'.ok /\ UNCHANGED treeVars)
                  /\ \A i \in -1 .. (Len(ltags[l]) + 1) :
                        insert(l, i, t) => (~last'.ok /\ UNCHANGED treeVars)
        /\ \A v \in ListTypeInputs :
              (Len(ltags[l]) > 0 /\ v # tagType(ltags[l][1]) /\ SetListType(l, v))
                  => (~last'.ok /\ UNCHANGED treeVars)

C4_ListsStayHomogeneous == []C4_Homogeneous /\ [][C4_MismatchFails]_vars

\* C4 witness: a push was refused for its type by a list that has members.
C4_Witness ==
    /\ last.op = "push"
    /\ last.err = "Items in this list must be of the list's type."
    /\ \E l \in Lists : Len(ltags[l]) > 0 /\ listType[l] = TagByte

\* C5: every child of a compound has a defined name, and every member of a
\* list has no name.
C5_NamedInCompoundUnnamedInList ==
    /\ \A c \in Compounds : \A x \in tagsOf(c) : name[x] # Undefined
    /\ \A l \in Lists : \A x \in members(l) : name[x] = Undefined

\* C6: a tag removed from a container by compound delete or clear, or by list
\* remove, removeAt or clear, has no parent afterwards.
C6_RemovalStep ==
    \A k \in Containers : \A x \in Children(k) :
        (/\ last'.op \in {"clear", "deleteName", "deleteTag", "remove", "removeAt", "listClear"}
         /\ x \notin (IF k \in Compounds THEN {ctags'[k][n] : n \in DOMAIN ctags'[k]}
                      ELSE {ltags'[k][i] : i \in 1 .. Len(ltags'[k])}))
            => parent'[x] = NoTag

C6_RemovalClearsParent == [][C6_RemovalStep]_vars

\* C7: assigning to a compound child a name that a sibling already uses, or
\* undefined, fails and leaves the children and all their names unchanged.
\* (Stated for an assignment that changes the name: v differs from the tag's
\* current name.)
C7_RenameStep ==
    \A t \in Tags : \A v \in Names \cup {Undefined} :
        (/\ parent[t] \in Compounds
         /\ t \in tagsOf(parent[t])
         /\ v # name[t]
         /\ v = Undefined \/ \E s \in tagsOf(parent[t]) \ {t} : name[s] = v
         /\ SetName(t, v))
            => (~last'.ok /\ UNCHANGED treeVars)

C7_CollidingNameAssignmentFails == [][C7_RenameStep]_vars

-----------------------------------------------------------------------------
(* The stream specification: one NbtBinaryStream under typed writes, reads *)
(* and seeks.  `stream` holds the stream, the last call, the value it was  *)
(* given or returned, and the error it threw.                              *)

\* Bound: no write starts beyond this position.
MaxWriteAt == 9

\* Bigints written, as their 8 bytes: 0, 1, -1, 2^63 - 1, -2^63 and
\* 0x0102030405060708.
Int64Inputs ==
    {<<0, 0, 0, 0, 0, 0, 0, 0>>, <<0, 0, 0, 0, 0, 0, 0, 1>>,
     <<255, 255, 255, 255, 255, 255, 255, 255>>,
     <<127, 255, 255, 255, 255, 255, 255, 255>>, <<128, 0, 0, 0, 0, 0, 0, 0>>,
     <<1, 2, 3, 4, 5, 6, 7, 8>>}

SeekOffsets == {0, 1, 8}

StreamInit ==
    /\ TreeInit
    /\ codec = CodecIdle
    /\ scalar = ScalarIdle
    /\ \E bigEndian \in BOOLEAN :
          stream = [phase |-> "open", s |-> NewStream(bigEndian), op |-> "new",
                    v |-> <<>>, err |-> ""]

Called(op, v, r) ==
    /\ stream' = [phase |-> "open", s |-> r.s, op |-> op, v |-> v, err |-> r.err]
    /\ UNCHANGED <<name, parent, ctags, ltags, listType, last, codec, scalar>>

WriteInt64 ==
    \E value \in Int64Inputs :
        /\ stream.s.position <= MaxWriteAt
        /\ Called("writeInt64", value, writeInt64(stream.s, value))

ReadInt64 ==
    LET r == readInt64(stream.s) IN
    Called("readInt64", IF r.err = "" THEN r.v ELSE <<>>, r)

Seek ==
    \E offset \in SeekOffsets : Called("seek", <<offset>>, seek(stream.s, offset, SeekBegin))

StreamNext == WriteInt64 \/ ReadInt64 \/ Seek

SpecStream == StreamInit /\ [][StreamNext]_vars

\* C10: on a little-endian stream, writeInt64(v) emits the 8 bytes of v least
\* significant first, and reading back with readInt64 from the offset of the
\* write returns v.
C10_WriteStep ==
    \A value \in Int64Inputs :
        (/\ ~stream.s.bigEndian
         /\ stream.s.position <= MaxWriteAt
         /\ stream' = [phase |-> "open", s |-> writeInt64(stream.s, value).s,
                       op |-> "writeInt64", v |-> value, err |-> ""])
            => LET at == stream.s.position
                   back == readInt64([stream'.s EXCEPT !.position = at])
               IN /\ SubSeq(stream'.s.buffer, at + 1, at + 8) = Reverse(value)
                  /\ back.err = ""
                  /\ back.v = value

C10_LittleEndianInt64RoundTrip == [][C10_WriteStep]_vars

-----------------------------------------------------------------------------
(* NbtFile: saveToBuffer and from, without compression.  A tag is a record *)
(* of its type, its name (the sequence of its characters, ASCII here), its *)
(* value (a sequence: one number for Byte, Short and Int, the 8 bytes for  *)
(* Long, the characters for String), its listType and its child tags in    *)
(* order.                                                                  *)

\* tag.name === undefined
Unnamed == <<-1>>

Tag(type, value, lt, tags) ==
    [type |-> type, name |-> Unnamed, value |-> value, listType |-> lt, tags |-> tags]

NbtByte(v) == Tag(TagByte, <<v>>, TagEnd, <<>>)
NbtShort(v) == Tag(TagShort, <<v>>, TagEnd, <<>>)
NbtInt(v) == Tag(TagInt, <<v>>, TagEnd, <<>>)
NbtLong(v) == Tag(TagLong, v, TagEnd, <<>>)
NbtString(v) == Tag(TagString, v, TagEnd, <<>>)
NbtList(lt, tags) == Tag(TagList, <<>>, lt, tags)
NbtCompound(tags) == Tag(TagCompound, <<>>, TagEnd, tags)
Named(tag, tagName) == [tag EXCEPT !.name = tagName]

\* Number.isSafeInteger(value) for a bigint: false, a bigint is not a number.
IsSafeIntegerOfBigInt(value) == FALSE

\* set value of NbtLong: the error thrown, if any.  The 8 bytes are always
\* within MIN_VALUE .. MAX_VALUE.
LongValueError(value) == IF ~IsSafeIntegerOfBigInt(value) THEN RangeErr ELSE NoError

RECURSIVE writeTag(_, _)
RECURSIVE writeTagData(_, _)
RECURSIVE WriteChildTags(_, _, _)
RECURSIVE WriteListItems(_, _, _)

\* #writeTag
writeTag(tag, writer) ==
    IF tag.name = Unnamed THEN Fail(writer, NbtFormatError)
    ELSE Then(writeTagType(writer, tag.type),
              LAMBDA a : Then(writeString(a.s, tag.name),
                              LAMBDA b : writeTagData(tag, b.s)))

\* for (const childTag of compound.tags) this.#writeTag(childTag, writer)
WriteChildTags(tags, i, writer) ==
    IF i > Len(tags) THEN Ok(writer, 0)
    ELSE Then(writeTag(tags[i], writer), LAMBDA r : WriteChildTags(tags, i + 1, r.s))

\* The same with the type of each element written before its data.
WriteListItemsTyped(tags, i, writer) ==
    IF i > Len(tags) THEN Ok(writer, 0)
    ELSE Then(writeTagType(writer, tags[i].type), LAMBDA a :
         Then(writeTagData(tags[i], a.s), LAMBDA r : WriteListItems(tags, i + 1, r.s)))

\* for (const childTag of list) this.#writeTagData(childTag, writer)
WriteListItems(tags, i, writer) ==
    IF i > Len(tags) THEN Ok(writer, 0)
    ELSE Then(writeTagData(tags[i], writer), LAMBDA r : WriteListItems(tags, i + 1, r.s))

\* #writeTagData, for the tag types of the trees saved here
writeTagData(tag, writer) ==
    CASE tag.type = TagByte -> writeByte(writer, tag.value[1])
      [] tag.type = TagShort -> writeInt16(writer, tag.value[1])
      [] tag.type = TagInt -> writeInt32(writer, tag.value[1])
      [] tag.type = TagLong -> writeInt64(writer, tag.value)
      [] tag.type = TagString -> writeString(writer, tag.value)
      [] tag.type = TagCompound ->
            Then(WriteChildTags(tag.tags, 1, writer), LAMBDA r : writeTagType(r.s, TagEnd))
      [] tag.type = TagList ->
            IF tag.listType = TagUnknown THEN Fail(writer, NbtFormatError)
            ELSE Then(writeTagType(writer, tag.listType),
                      LAMBDA a : Then(writeInt32(a.s, Len(tag.tags)),
                                      LAMBDA b : WriteListItems(tag.tags, 1, b.s)))
      [] OTHER -> Fail(writer, NbtFormatError)

\* saveToBuffer(NbtCompression.None): v is the buffer returned.
saveToBuffer(rootTag, bigEndian) ==
    IF rootTag.name = Unnamed THEN Fail(NewStream(bigEndian), NbtFormatError)
    ELSE Then(writeTag(rootTag, NewStream(bigEndian)), LAMBDA r : Ok(r.s, StreamBuffer(r.s)))

\* A filter callback: undefined, or a predicate that rejects the tags of some
\* types and the tags of some names.
NoFilter == [defined |-> FALSE, types |-> {}, names |-> {}]
Accepts(filter, tag) == tag.type \notin filter.types /\ tag.name \notin filter.names
Rejected(filter, tag) == filter.defined /\ ~Accepts(filter, tag)

\* compound.add(childTag) for a fresh, named childTag: the error thrown.
AddDecodedError(tags, childTag) ==
    IF \E i \in 1 .. Len(tags) : tags[i].name = childTag.name THEN PlainError
    ELSE NoError

\* list.push(childTag) for a fresh, unnamed childTag: the error thrown.
PushDecodedError(list, childTag) ==
    IF list.listType # TagUnknown /\ childTag.type # list.listType THEN PlainError
    ELSE NoError

\* The count fixed-size integers of an array tag, read one after another.
ReadIntegers(reader, count, size) ==
    IF count > (IF reader.length > reader.position
                THEN (reader.length - reader.position) \div size ELSE 0)
    THEN Fail(reader, EndOfStreamError)
    ELSE Ok([reader EXCEPT !.position = @ + count * size],
            [i \in 1 .. count |->
                Ordered(reader, SubSeq(reader.buffer, reader.position + (i - 1) * size + 1,
                                       reader.position + i * size))])

\* A tag read without a byte taken from the stream.
readTagAhead(type, reader, filter) == Ok(reader, Tag(type, 0, TagEnd, <<>>))

RECURSIVE readTag(_, _, _)
RECURSIVE ReadChildren(_, _, _, _)
RECURSIVE ReadListLoop(_, _, _, _, _)

\* Named children are read with the child type until the End type: after each
\* child its name is set, then the filter is asked.  A rejected child makes
\* the loop continue, the next type not read; an accepted one is added and
\* the next type read.  This is the while loop of NbtFile.from (over the
\* root) and of #readTag, case Compound.
ReadChildren(childType, reader, compound, filter) ==
    IF childType = TagEnd THEN Ok(reader, compound)
    ELSE Then(readString(reader), LAMBDA n :
         Then(readTag(childType, n.s, filter), LAMBDA c :
              IF Rejected(filter, Named(c.v, n.v))
              THEN ReadChildren(childType, c.s, compound, filter)
              ELSE IF AddDecodedError(compound.tags, Named(c.v, n.v)) # NoError
              THEN Fail(c.s, AddDecodedError(compound.tags, Named(c.v, n.v)))
              ELSE Then(readTagType(c.s), LAMBDA t :
                        ReadChildren(t.v, t.s,
                            [compound EXCEPT !.tags = Append(@, Named(c.v, n.v))],
                            filter))))

\* #readTag, case List: the for loop.
ReadListLoop(i, length, reader, list, filter) ==
    IF i >= length THEN Ok(reader, list)
    ELSE Then(readTag(list.listType, reader, filter), LAMBDA c :
              IF Rejected(filter, c.v)
              THEN ReadListLoop(i + 1, length, c.s, list, filter)
              ELSE IF PushDecodedError(list, c.v) # NoError
              THEN Fail(c.s, PushDecodedError(list, c.v))
              ELSE ReadListLoop(i + 1, length, c.s,
                                [list EXCEPT !.tags = Append(@, c.v)], filter))

\* #readTag: v is the tag read.
readTag(type, reader, filter) ==
    CASE type = TagByte -> Then(readByte(reader), LAMBDA r : Ok(r.s, NbtByte(r.v)))
      [] type = TagShort -> Then(readInt16(reader), LAMBDA r : Ok(r.s, NbtShort(r.v)))
      [] type = TagInt -> Then(readInt32(reader), LAMBDA r : Ok(r.s, NbtInt(r.v)))
      [] type = TagLong ->
            Then(readInt64(reader), LAMBDA r :
                 IF LongValueError(r.v) # NoError THEN Fail(r.s, LongValueError(r.v))
                 ELSE Ok(r.s, NbtLong(r.v)))
      [] type \in {TagFloat, TagDouble} ->
            Then(readFloating(reader, IF type = TagFloat THEN 4 ELSE 8),
                 LAMBDA r : Ok(r.s, Tag(type, r.v, TagEnd, <<>>)))
      [] type = TagString -> Then(readString(reader), LAMBDA r : Ok(r.s, NbtString(r.v)))
      [] type = TagByteArray ->
            Then(readInt32(reader), LAMBDA n :
                 IF n.v < 0 THEN Fail(n.s, NbtFormatError)
                 ELSE Then(readBytes(n.s, n.v), LAMBDA r :
                           IF Len(r.v) < n.v THEN Fail(r.s, EndOfStreamError)
                           ELSE Ok(r.s, Tag(type, r.v, TagEnd, <<>>))))
      [] type \in {TagIntArray, TagLongArray} ->
            Then(readInt32(reader), LAMBDA n :
                 IF n.v < 0 THEN Fail(n.s, NbtFormatError)
                 ELSE Then(ReadIntegers(n.s, n.v, IF type = TagIntArray THEN 4 ELSE 8),
                           LAMBDA r : Ok(r.s, Tag(type, r.v, TagEnd, <<>>))))
      [] type = TagCompound ->
            Then(readTagType(reader), LAMBDA t :
                 ReadChildren(t.v, t.s, NbtCompound(<<>>), filter))
      [] type = TagList ->
            Then(readTagType(reader), LAMBDA t :
                 Then(readInt32(t.s), LAMBDA n :
                      IF n.v < 0 THEN Fail(n.s, NbtFormatError)
                      ELSE ReadListLoop(0, n.v, n.s, NbtList(t.v, <<>>), filter)))
      [] OTHER -> Fail(reader, NbtFormatError)

\* NbtFile.from(buffer, NbtCompression.None, filter): v is the root tag of the
\* file returned, s the reader as the call leaves it.
from(buffer, bigEndian, filter) ==
    Then(readByte(StreamFrom(buffer, bigEndian)), LAMBDA firstByte :
         IF firstByte.v < 0 THEN Fail(firstByte.s, PlainError)
         ELSE IF firstByte.v # TagCompound THEN Fail(firstByte.s, PlainError)
         ELSE Then(readString(firstByte.s), LAMBDA n :
              Then(readTagType(n.s), LAMBDA t :
                   ReadChildren(t.v, t.s, Named(NbtCompound(<<>>), n.v), filter))))

-----------------------------------------------------------------------------
(* The codec specification: a file is built around a root tag, saved to a  *)
(* buffer, and the buffer is loaded again, with or without a filter.       *)

\* Bounds: children of a compound, items of a list.
MaxChildren == 2
MaxItems == 2

Zero64 == Zeros(8)

RootNames == {<<>>, <<114>>}
ChildNames == {<<97>>, <<98>>}

\* The sequences of at most n tags of S, named apart with the child names.
NamedSeqs(S, n) ==
    UNION {{[i \in 1 .. m |-> Named(f[i], g[i])] :
                f \in [1 .. m -> S],
                g \in {h \in [1 .. m -> ChildNames] :
                          \A i, j \in 1 .. m : i # j => h[i] # h[j]}} :
           m \in 0 .. n}

ScalarTags == {NbtByte(1), NbtShort(258), NbtInt(-2), NbtLong(Zero64), NbtString(<<104, 105>>)}

InnerCompounds == {NbtCompound(tags) : tags \in NamedSeqs({NbtByte(1), NbtString(<<104, 105>>)}, 1)}

ListTags ==
    {NbtList(TagUnknown, <<>>), NbtList(TagEnd, <<>>)}
    \cup {NbtList(t.type, [i \in 1 .. n |-> t]) :
            t \in {NbtByte(1), NbtShort(258), NbtCompound(<<>>),
                   NbtCompound(<<Named(NbtByte(1), <<97>>)>>)},
            n \in 1 .. MaxItems}

ChildTags == ScalarTags \cup InnerCompounds \cup ListTags

RootTags == {Named(NbtCompound(tags), rootName) :
                tags \in NamedSeqs(ChildTags, MaxChildren), rootName \in RootNames}

AllTagTypes == TagByte .. TagLongArray

FilterInputs ==
    {NoFilter} \cup
    {[defined |-> TRUE, types |-> T, names |-> N] :
        T \in {{}, {TagByte}, {TagCompound}, AllTagTypes}, N \in {{}, {<<97>>}}}

CodecState(phase, rootTag, bigEndian, filter, saved, loaded) ==
    [phase |-> phase, rootTag |-> rootTag, bigEndian |-> bigEndian, filter |-> filter,
     buffer |-> saved.v, saveErr |-> saved.err,
     result |-> loaded.v, loadErr |-> loaded.err,
     position |-> loaded.s.position, length |-> loaded.s.length]

NothingSaved == Ok(NewStream(TRUE), <<>>)
NothingLoaded == Ok(NewStream(TRUE), NbtCompound(<<>>))

\* new NbtFile(rootTag), and the endianness set
NewFile ==
    \E rootTag \in RootTags, bigEndian \in BOOLEAN :
        /\ codec = CodecIdle
        /\ codec' = CodecState("file", rootTag, bigEndian, NoFilter, NothingSaved,
                               NothingLoaded)
        /\ UNCHANGED <<name, parent, ctags, ltags, listType, last, stream, scalar>>

SaveToBuffer ==
    /\ codec.phase = "file"
    /\ LET saved == saveToBuffer(codec.rootTag, codec.bigEndian) IN
       codec' = CodecState("saved", codec.rootTag, codec.bigEndian, NoFilter,
                           IF saved.err = "" THEN saved
                           ELSE [s |-> saved.s, v |-> <<>>, err |-> saved.err],
                           NothingLoaded)
    /\ UNCHANGED <<name, parent, ctags, ltags, listType, last, stream, scalar>>

From ==
    \E filter \in FilterInputs :
        /\ codec.phase = "saved"
        /\ codec.saveErr = ""
        /\ LET loaded == from(codec.buffer, codec.bigEndian, filter) IN
           codec' = CodecState("loaded", codec.rootTag, codec.bigEndian, filter,
                               Ok(NewStream(TRUE), codec.buffer),
                               IF loaded.err = "" THEN loaded
                               ELSE [s |-> loaded.s, v |-> NbtCompound(<<>>), err |-> loaded.err])
        /\ UNCHANGED <<name, parent, ctags, ltags, listType, last, stream, scalar>>

\* clone() of the tags saved here.  A scalar is constructed anew from name
\* and value, an NbtLong through its value setter; a compound adds the clones
\* of its tags to a fresh compound; a list takes the listType and pushes the
\* clones of its tags.
RECURSIVE clone(_)
RECURSIVE CloneTags(_, _, _)
CloneTags(tags, i, into) ==
    IF i > Len(tags) THEN [v |-> into, err |-> NoError]
    ELSE Then(clone(tags[i]), LAMBDA c :
              IF into.type = TagCompound /\ AddDecodedError(into.tags, c.v) # NoError
              THEN [v |-> into, err |-> AddDecodedError(into.tags, c.v)]
              ELSE IF into.type = TagList /\ PushDecodedError(into, c.v) # NoError
              THEN [v |-> into, err |-> PushDecodedError(into, c.v)]
              ELSE CloneTags(tags, i + 1, [into EXCEPT !.tags = Append(@, c.v)]))

clone(tag) ==
    CASE tag.type = TagLong ->
            IF LongValueError(tag.value) # NoError
            THEN [v |-> tag, err |-> LongValueError(tag.value)]
            ELSE [v |-> Named(NbtLong(tag.value), tag.name), err |-> NoError]
      [] tag.type = TagCompound -> CloneTags(tag.tags, 1, Named(NbtCompound(<<>>), tag.name))
      [] tag.type = TagList ->
            CloneTags(tag.tags, 1, Named(NbtList(tag.listType, <<>>), tag.name))
      [] OTHER ->
            [v |-> Named(Tag(tag.type, tag.value, TagEnd, <<>>), tag.name), err |-> NoError]

\* The clone returned, or the error thrown and no tag.
Cloned(r) ==
    [s |-> NewStream(TRUE), v |-> IF r.err = NoError THEN r.v ELSE NbtCompound(<<>>),
     err |-> r.err]

\* file.rootTag.clone()
Clone ==
    /\ codec.phase = "file"
    /\ codec' = CodecState("cloned", codec.rootTag, codec.bigEndian, NoFilter, NothingSaved,
                           Cloned(clone(codec.rootTag)))
    /\ UNCHANGED <<name, parent, ctags, ltags, listType, last, stream, scalar>>

CodecNext == NewFile \/ SaveToBuffer \/ From \/ Clone

SpecCodec == Init /\ [][CodecNext]_vars

RECURSIVE Equiv(_, _)
\* The two trees are equal in variant, name and value, their list items in
\* order, their compound children matched by name.
Equiv(a, b) ==
    /\ a.type = b.type
    /\ a.name = b.name
    /\ a.value = b.value
    /\ Len(a.tags) = Len(b.tags)
    /\ IF a.type = TagCompound
       THEN \A i \in 1 .. Len(a.tags) : \E j \in 1 .. Len(b.tags) :
                a.tags[i].name = b.tags[j].name /\ Equiv(a.tags[i], b.tags[j])
       ELSE \A i \in 1 .. Len(a.tags) : Equiv(a.tags[i], b.tags[i])

RECURSIVE Prune(_, _)
RECURSIVE PruneTags(_, _, _)
\* The tag without the descendants the filter rejects.
PruneTags(tags, i, filter) ==
    IF i > Len(tags) THEN <<>>
    ELSE LET kept == Prune(tags[i], filter) IN
         (IF Rejected(filter, kept) THEN <<>> ELSE <<kept>>)
             \o PruneTags(tags, i + 1, filter)

Prune(tag, filter) == [tag EXCEPT !.tags = PruneTags(@, 1, filter)]

RECURSIVE HasType(_, _)
HasType(tag, type) ==
    tag.type = type \/ \E i \in 1 .. Len(tag.tags) : HasType(tag.tags[i], type)

\* C8: loading a saved buffer with a filter returns the tree without the
\* tags the filter rejected, and leaves the reader at the end of the buffer,
\* whatever the filter rejects.  (Trees without Long tags; those never load.)
C8_FilterKeepsExactlyAcceptedTags ==
    (codec.phase = "loaded" /\ codec.filter.defined /\ ~HasType(codec.rootTag, TagLong))
        => /\ codec.loadErr = ""
           /\ Equiv(codec.result, Prune(codec.rootTag, codec.filter))
           /\ codec.position = codec.length

\* C9: loading the buffer a tree was saved to, with the same endianness and
\* no filter, returns a tree equal to the one saved.
C9_RoundTrip ==
    (codec.phase = "loaded" /\ ~codec.filter.defined)
        => /\ codec.loadErr = ""
           /\ Equiv(codec.result, codec.rootTag)

-----------------------------------------------------------------------------
(* The numeric tags: NbtByte, NbtShort, NbtInt and NbtLong under value     *)
(* assignment.  A number is the pair <<q, r>> of q * 65536 + r with        *)
(* 0 <= r < 65536, so that numbers beyond 32 bits can be given; a bigint   *)
(* is its 8 bytes, as in the stream.                                       *)

Num(q, r) == <<q, r>>
NumLess(a, b) == a[1] < b[1] \/ (a[1] = b[1] /\ a[2] < b[2])

\* MIN_VALUE and MAX_VALUE of NbtByte; the bounds written in the setters of
\* NbtShort and NbtInt.
MinValue(type) ==
    CASE type = TagByte -> Num(-1, 65408)
      [] type = TagShort -> Num(-1, 32768)
      [] type = TagInt -> Num(-32768, 0)

MaxValue(type) ==
    CASE type = TagByte -> Num(0, 127)
      [] type = TagShort -> Num(0, 32767)
      [] type = TagInt -> Num(32767, 65535)

\* A setter that accepts every number.
ValueErrorNever(type, value) == NoError

\* set value of NbtByte, NbtShort, NbtInt: the error thrown, if any.  The
\* numbers given are integers well within the safe integers.
ValueError(type, value) ==
    IF NumLess(value, MinValue(type)) \/ NumLess(MaxValue(type), value) THEN RangeErr
    ELSE NoError

\* The integers assigned: the edges of the three widths, inside and outside.
NumberInputs ==
    {Num(0, 0), Num(0, 1), Num(-1, 65535),
     Num(0, 127), Num(0, 128), Num(-1, 65408), Num(-1, 65407),
     Num(0, 32767), Num(0, 32768), Num(-1, 32768), Num(-1, 32767),
     Num(32767, 65535), Num(32768, 0), Num(-32768, 0), Num(-32769, 65535)}

InRange(type, value) ==
    CASE type = TagByte -> value \in {Num(0, 0), Num(0, 1), Num(-1, 65535), Num(0, 127),
                                      Num(-1, 65408)}
      [] type = TagShort -> value \in {Num(0, 0), Num(0, 1), Num(-1, 65535), Num(0, 127),
                                       Num(0, 128), Num(-1, 65408), Num(-1, 65407),
                                       Num(0, 32767), Num(-1, 32768)}
      [] type = TagInt -> value \notin {Num(32768, 0), Num(-32769, 65535)}

\* new NbtByte() / NbtShort() / NbtInt() / NbtLong(): the value is 0.
NewScalar ==
    \E type \in {TagByte, TagShort, TagInt, TagLong} :
        /\ scalar = ScalarIdle
        /\ scalar' = [phase |-> "tag", type |-> type,
                      value |-> IF type = TagLong THEN Zeros(8) ELSE Num(0, 0),
                      op |-> "new", arg |-> <<>>, err |-> NoError]
        /\ UNCHANGED <<name, parent, ctags, ltags, listType, last, codec, stream>>

\* tag.value = value, for a number
SetValue ==
    \E value \in NumberInputs :
        /\ scalar.phase = "tag" /\ scalar.type # TagLong
        /\ scalar' = [scalar EXCEPT
                         !.value = IF ValueError(scalar.type, value) = NoError THEN value
                                   ELSE @,
                         !.op = "set", !.arg = value,
                         !.err = ValueError(scalar.type, value)]
        /\ UNCHANGED <<name, parent, ctags, ltags, listType, last, codec, stream>>

\* tag.value = value, for a bigint; new NbtLong(value) does the same on a
\* fresh tag.
SetLongValue ==
    \E value \in Int64Inputs :
        /\ scalar.phase = "tag" /\ scalar.type = TagLong
        /\ scalar' = [scalar EXCEPT
                         !.value = IF LongValueError(value) = NoError THEN value ELSE @,
                         !.op = "set", !.arg = value,
                         !.err = LongValueError(value)]
        /\ UNCHANGED <<name, parent, ctags, ltags, listType, last, codec, stream>>

ScalarNext == NewScalar \/ SetValue \/ SetLongValue

SpecScalar == Init /\ [][ScalarNext]_vars

\* C11: assigning an integer to a Byte, Short or Int tag succeeds exactly when
\* it lies in the signed range of the tag's width, and the value then reads
\* back as assigned; out of range it fails with RangeError and the value
\* stored before stays.
C11_SetStep ==
    \A value \in NumberInputs :
        (/\ scalar.phase = "tag" /\ scalar.type # TagLong
         /\ scalar'.phase = "tag" /\ scalar'.op = "set" /\ scalar'.arg = value)
            => IF InRange(scalar.type, value)
               THEN scalar'.err = NoError /\ scalar'.value = value
               ELSE scalar'.err = RangeErr /\ scalar'.value = scalar.value

C11_RangeCheckedAssignment == [][C11_SetStep]_vars

\* C11 witness: an out-of-range assignment was refused on a tag that holds a
\* value assigned before.
C11_Witness ==
    /\ scalar.phase = "tag" /\ scalar.type = TagInt
    /\ scalar.op = "set" /\ scalar.err = RangeErr
    /\ scalar.value = Num(-32768, 0)

\* C12: giving a Long tag any signed 64-bit value succeeds, and the value
\* reads back as given.
C12_LongAcceptsEveryInt64 ==
    (scalar.phase = "tag" /\ scalar.type = TagLong /\ scalar.op = "set")
        => scalar.err = NoError /\ scalar.value = scalar.arg

-----------------------------------------------------------------------------
(* NbtFile with its compression: the constructor, the rootTag setter, the  *)
(* name setter on the root tag, saveToBuffer and NbtFile.from.             *)

\* enum NbtCompression; CompressionUndefined is an argument not given.
CompressionAutoDetect == 0
CompressionNone == 1
CompressionGzip == 2
CompressionZLib == 3
CompressionUndefined == -1

\* A DEFLATE stream of one stored block: the final-block header, the length
\* in two bytes, the bytes themselves and the sum of them as the check.
RECURSIVE ByteSum(_)
ByteSum(bytes) == IF bytes = <<>> THEN 0 ELSE (Head(bytes) + ByteSum(Tail(bytes))) % 256

Deflated(bytes) ==
    <<1, Len(bytes) % 256, Len(bytes) \div 256>> \o bytes \o <<ByteSum(bytes)>>

Inflated(bytes) ==
    IF /\ Len(bytes) >= 4
       /\ bytes[1] = 1
       /\ bytes[2] + 256 * bytes[3] = Len(bytes) - 4
       /\ ByteSum(SubSeq(bytes, 4, Len(bytes) - 1)) = bytes[Len(bytes)]
    THEN [v |-> SubSeq(bytes, 4, Len(bytes) - 1), err |-> NoError]
    ELSE [v |-> <<>>, err |-> PlainError]

\* zlib of node: the gzip member header 1F 8B 08, the zlib header 78 9C.
gzipSync(bytes) == <<31, 139, 8>> \o Deflated(bytes)
deflateSync(bytes) == <<120, 156>> \o Deflated(bytes)

unzipSync(bytes) ==
    IF Len(bytes) >= 3 /\ SubSeq(bytes, 1, 3) = <<31, 139, 8>>
    THEN Inflated(SubSeq(bytes, 4, Len(bytes)))
    ELSE IF Len(bytes) >= 2 /\ SubSeq(bytes, 1, 2) = <<120, 156>>
    THEN Inflated(SubSeq(bytes, 3, Len(bytes)))
    ELSE [v |-> <<>>, err |-> PlainError]

\* #detectCompression: buffer.readInt8() throws RangeError on an empty buffer
\* and reads the first byte as a signed one.
detectCompression(buffer) ==
    IF buffer = <<>> THEN [v |-> CompressionAutoDetect, err |-> RangeErr]
    ELSE IF ToI8(buffer[1]) = -1 THEN [v |-> CompressionAutoDetect, err |-> PlainError]
    ELSE IF ToI8(buffer[1]) = TagCompound THEN [v |-> CompressionNone, err |-> NoError]
    ELSE IF ToI8(buffer[1]) = 31 THEN [v |-> CompressionGzip, err |-> NoError]
    ELSE IF ToI8(buffer[1]) = 120 THEN [v |-> CompressionZLib, err |-> NoError]
    ELSE [v |-> CompressionAutoDetect, err |-> PlainError]

\* saveToBuffer: the compression it settles on
ResolvedCompression(fileCompression, compression) ==
    IF compression = CompressionUndefined
    THEN IF fileCompression # CompressionAutoDetect THEN fileCompression
         ELSE CompressionGzip
    ELSE compression

\* saveToBuffer: the switch that validates the compression
CompressionError(compression) ==
    IF compression \in {CompressionGzip, CompressionZLib, CompressionNone} THEN NoError
    ELSE RangeErr

\* saveToBuffer: the compression step
Compressed(compression, bytes) ==
    IF compression = CompressionGzip THEN gzipSync(bytes)
    ELSE IF compression = CompressionZLib THEN deflateSync(bytes)
    ELSE bytes

\* saveToBuffer(compression) of a file: the bytes returned and the
\* compression used, or the error thrown.
SavedFile(file, compression) ==
    IF file.rootTag.name = Unnamed THEN [err |-> NbtFormatError]
    ELSE IF CompressionError(ResolvedCompression(file.fileCompression, compression)) # NoError
    THEN [err |-> CompressionError(ResolvedCompression(file.fileCompression, compression))]
    ELSE Then(saveToBuffer(file.rootTag, file.bigEndian), LAMBDA written :
              [v |-> Compressed(ResolvedCompression(file.fileCompression, compression),
                                written.v),
               used |-> ResolvedCompression(file.fileCompression, compression),
               err |-> NoError])

\* NbtFile.from: the compression settled on, detected or given
LoadCompression(buffer, compression) ==
    IF compression \in {CompressionUndefined, CompressionAutoDetect}
    THEN detectCompression(buffer)
    ELSE [v |-> compression, err |-> NoError]

\* NbtFile.from: the decompression
Decompressed(buffer, compression) ==
    IF compression \in {CompressionGzip, CompressionZLib} THEN unzipSync(buffer)
    ELSE [v |-> buffer, err |-> NoError]

\* NbtFile.from(buffer, compression): the root tag and fileCompression of the
\* file returned, or the error thrown.
LoadedFile(buffer, compression, bigEndian) ==
    Then(LoadCompression(buffer, compression), LAMBDA detected :
    Then(Decompressed(buffer, detected.v), LAMBDA plain :
    Then(from(plain.v, bigEndian, NoFilter), LAMBDA read :
         [rootTag |-> read.v, fileCompression |-> detected.v, err |-> NoError])))

\* The root tags given to a file: named "" or "r", empty or with one Byte;
\* and a compound that was never named.
FileRoots ==
    {Named(NbtCompound(tags), rootName) :
        tags \in {<<>>, <<Named(NbtByte(1), <<97>>)>>},
        rootName \in RootNames \cup {Unnamed}}

\* The names assigned to the root tag: undefined, "" and "r".
RootNameInputs == RootNames \cup {Unnamed}

CompressionInputs ==
    {CompressionUndefined, CompressionAutoDetect, CompressionNone, CompressionGzip,
     CompressionZLib, 4}

\* Buffers given to NbtFile.from besides the ones saveToBuffer returned:
\* empty, an empty root "", and first bytes of every kind.
RawBuffers == {<<>>, <<10, 0, 0, 0>>, <<31>>, <<120>>, <<80, 75>>, <<255>>}

\* The compressions given to NbtFile.from
LoadCompressionInputs ==
    {CompressionUndefined, CompressionAutoDetect, CompressionNone, CompressionZLib}

\* The file held, and the last call on it: op, its compression argument, the
\* buffer it took or returned, the compression saveToBuffer used and the
\* error thrown.
FileState(rootTag, bigEndian, fileCompression, op, arg, buffer, used, err) ==
    [phase |-> "nbtfile", rootTag |-> rootTag, bigEndian |-> bigEndian,
     fileCompression |-> fileCompression, op |-> op, arg |-> arg, buffer |-> buffer,
     used |-> used, err |-> err]

\* new NbtFile() and new NbtFile(rootTag), which throws for an unnamed root
Construct ==
    \E rootTag \in FileRoots, bigEndian \in {TRUE} :
        /\ codec = CodecIdle
        /\ rootTag.name # Unnamed
        /\ codec' = FileState(rootTag, bigEndian, CompressionAutoDetect, "new",
                              CompressionUndefined, <<>>, CompressionAutoDetect, NoError)
        /\ UNCHANGED <<name, parent, ctags, ltags, listType, last, stream, scalar>>

\* file.rootTag = value
RootTagAssign ==
    \E value \in FileRoots :
        /\ codec.phase = "nbtfile"
        /\ codec' = [codec EXCEPT
                        !.rootTag = IF value.name = Unnamed THEN @ ELSE value,
                        !.op = "rootTag", !.arg = CompressionUndefined, !.buffer = <<>>,
                        !.err = IF value.name = Unnamed THEN PlainError ELSE NoError]
        /\ UNCHANGED <<name, parent, ctags, ltags, listType, last, stream, scalar>>

\* file.rootTag.name = value: the root tag has no parent, so the name setter
\* of NbtTag assigns whatever it is given.
RootNameAssign ==
    \E value \in RootNameInputs :
        /\ codec.phase = "nbtfile"
        /\ codec' = [codec EXCEPT
                        !.rootTag = Named(@, value),
                        !.op = "name", !.arg = CompressionUndefined, !.buffer = <<>>,
                        !.err = NoError]
        /\ UNCHANGED <<name, parent, ctags, ltags, listType, last, stream, scalar>>

\* file.saveToBuffer(compression), which leaves fileCompression as it was
Save ==
    \E compression \in CompressionInputs :
        /\ codec.phase = "nbtfile"
        /\ LET saved == SavedFile(codec, compression) IN
           codec' = [codec EXCEPT
                        !.op = "save", !.arg = compression,
                        !.buffer = IF saved.err = NoError THEN saved.v ELSE <<>>,
                        !.used = IF saved.err = NoError THEN saved.used
                                 ELSE CompressionAutoDetect,
                        !.err = saved.err]
        /\ UNCHANGED <<name, parent, ctags, ltags, listType, last, stream, scalar>>

\* file = NbtFile.from(buffer, compression), of a buffer saved before or a
\* raw one; when it throws, the file held before stays.
Load ==
    \E compression \in LoadCompressionInputs,
       buffer \in RawBuffers \cup (IF codec.phase = "nbtfile" /\ codec.op = "save"
                                   THEN {codec.buffer} ELSE {}) :
        /\ codec.phase = "nbtfile"
        /\ LET loaded == LoadedFile(buffer, compression, codec.bigEndian) IN
           codec' = [codec EXCEPT
                        !.rootTag = IF loaded.err = NoError THEN loaded.rootTag ELSE @,
                        !.fileCompression = IF loaded.err = NoError
                                            THEN loaded.fileCompression ELSE @,
                        !.op = "from", !.arg = compression, !.buffer = buffer,
                        !.used = CompressionAutoDetect, !.err = loaded.err]
        /\ UNCHANGED <<name, parent, ctags, ltags, listType, last, stream, scalar>>

FileNext == Construct \/ RootTagAssign \/ RootNameAssign \/ Save \/ Load

SpecFile == Init /\ [][FileNext]_vars

\* C13: saveToBuffer uses the compression given; without one, the compression
\* of the file's most recent load or save, which fileCompression reports;
\* without any, Gzip.  After a save fileCompression reports the compression
\* it used.
C13_SaveStep ==
    (codec.phase = "nbtfile" /\ codec'.phase = "nbtfile" /\ codec'.op = "save"
        /\ codec'.err = NoError)
        => /\ codec'.used = IF codec'.arg # CompressionUndefined THEN codec'.arg
                            ELSE IF codec.fileCompression # CompressionAutoDetect
                            THEN codec.fileCompression
                            ELSE CompressionGzip
           /\ codec'.fileCompression = codec'.used

C13_SaveUsesLastCompression == [][C13_SaveStep]_vars

\* C14: NbtFile.from without a compression, or with AutoDetect, takes the
\* compression from the first byte, 0x0A None, 0x1F Gzip, 0x78 ZLib, and the
\* file returned reports it; any other first byte fails with NbtFormatError
\* and no file is returned.
C14_LoadStep ==
    (/\ codec.phase = "nbtfile" /\ codec'.phase = "nbtfile" /\ codec'.op = "from"
     /\ codec'.arg \in {CompressionUndefined, CompressionAutoDetect}
     /\ codec'.buffer # <<>>)
        => IF codec'.buffer[1] \in {10, 31, 120}
           THEN codec'.err = NoError
                    => codec'.fileCompression =
                          CASE codec'.buffer[1] = 10 -> CompressionNone
                            [] codec'.buffer[1] = 31 -> CompressionGzip
                            [] codec'.buffer[1] = 120 -> CompressionZLib
           ELSE /\ codec'.err = NbtFormatError
                /\ codec'.rootTag = codec.rootTag
                /\ codec'.fileCompression = codec.fileCompression

C14_AutoDetectByFirstByte == [][C14_LoadStep]_vars

\* C18: the root tag of a file is always a Compound with a defined name.
C18_RootIsNamedCompound ==
    codec.phase = "nbtfile"
        => codec.rootTag.type = TagCompound /\ codec.rootTag.name # Unnamed

-----------------------------------------------------------------------------
(* NbtBinaryStream.from(buffer, bigEndian): a stream that wraps a buffer   *)
(* and cannot grow, under the typed reads, seek and the typed writes.      *)

MaxWrites == 1

\* The buffers wrapped: the first bytes of one that holds a tag type of
\* every kind, 0..9 of them.
WrappedBytes == <<13, 127, 128, 254, 255, 12, 0, 10, 200>>
WrappedBuffers == {SubSeq(WrappedBytes, 1, n) : n \in 0 .. Len(WrappedBytes)}

WrappedInit ==
    /\ TreeInit
    /\ codec = CodecIdle
    /\ scalar = ScalarIdle
    /\ \E buffer \in WrappedBuffers, bigEndian \in BOOLEAN :
          stream = [phase |-> "wrapped", s |-> StreamFrom(buffer, bigEndian),
                    op |-> "from", v |-> <<>>, err |-> NoError, writes |-> 0]

\* A call of op that gave r: the stream after it, the value returned and the
\* error thrown.
WrappedCalled(op, v, r, writes) ==
    /\ stream' = [phase |-> "wrapped", s |-> r.s, op |-> op,
                  v |-> IF r.err = NoError THEN v ELSE <<>>, err |-> r.err,
                  writes |-> stream.writes + writes]
    /\ UNCHANGED <<name, parent, ctags, ltags, listType, last, codec, scalar>>

WrappedReadTagType ==
    LET r == readTagType(stream.s) IN WrappedCalled("readTagType", <<r.v>>, r, 0)

WrappedReadByte ==
    LET r == readByte(stream.s) IN WrappedCalled("readByte", <<r.v>>, r, 0)

WrappedReadInt16 ==
    LET r == readInt16(stream.s) IN WrappedCalled("readInt16", <<r.v>>, r, 0)

WrappedReadInt32 ==
    LET r == readInt32(stream.s) IN WrappedCalled("readInt32", <<r.v>>, r, 0)

WrappedReadInt64 ==
    LET r == readInt64(stream.s) IN WrappedCalled("readInt64", r.v, r, 0)

WrappedReadFloat ==
    LET r == readFloating(stream.s, 4) IN WrappedCalled("readFloat", r.v, r, 0)

WrappedReadDouble ==
    LET r == readFloating(stream.s, 8) IN WrappedCalled("readDouble", r.v, r, 0)

WrappedSeek ==
    \E offset \in SeekOffsets :
        WrappedCalled("seek", <<offset>>, seek(stream.s, offset, SeekBegin), 0)

WrappedWriteByte ==
    /\ stream.writes < MaxWrites
    /\ WrappedCalled("writeByte", <<>>, writeByte(stream.s, 17), 1)

WrappedWriteInt16 ==
    /\ stream.writes < MaxWrites
    /\ WrappedCalled("writeInt16", <<>>, writeInt16(stream.s, 4386), 1)

WrappedWriteInt32 ==
    /\ stream.writes < MaxWrites
    /\ WrappedCalled("writeInt32", <<>>, writeInt32(stream.s, 287454020), 1)

WrappedWriteInt64 ==
    /\ stream.writes < MaxWrites
    /\ WrappedCalled("writeInt64", <<>>,
                     writeInt64(stream.s, <<17, 34, 51, 68, 85, 102, 119, 136>>), 1)

WrappedNext ==
    \/ WrappedReadTagType
    \/ WrappedReadByte
    \/ WrappedReadInt16
    \/ WrappedReadInt32
    \/ WrappedReadInt64
    \/ WrappedReadFloat
    \/ WrappedReadDouble
    \/ WrappedSeek
    \/ WrappedWriteByte
    \/ WrappedWriteInt16
    \/ WrappedWriteInt32
    \/ WrappedWriteInt64

SpecWrapped == WrappedInit /\ [][WrappedNext]_vars

\* The width of a typed access, 0 for the others.
WidthOf(op) ==
    CASE op \in {"readByte", "writeByte"} -> 1
      [] op \in {"readInt16", "writeInt16"} -> 2
      [] op \in {"readInt32", "readFloat", "writeInt32"} -> 4
      [] op \in {"readInt64", "readDouble", "writeInt64"} -> 8
      [] OTHER -> 0

\* C15: readTagType of a byte above 0x0C fails with RangeError.
C15_ReadTagTypeStep ==
    (/\ stream'.op = "readTagType"
     /\ stream.s.position < stream.s.length
     /\ stream.s.buffer[stream.s.position + 1] > TagLongArray)
        => stream'.err = RangeErr

C15_TagTypeAboveLongArrayIsRangeError == [][C15_ReadTagTypeStep]_vars

\* C16: a write on a stream that cannot grow, ending past its capacity, fails
\* with EndOfStreamError and leaves position, length, capacity and the buffer
\* as they were.
C16_WriteStep ==
    (/\ stream'.op \in {"writeByte", "writeInt16", "writeInt32", "writeInt64"}
     /\ stream'.writes = stream.writes + 1
     /\ ~stream.s.expandable
     /\ stream.s.position + WidthOf(stream'.op) > stream.s.capacity)
        => stream'.err = EndOfStreamError /\ stream'.s = stream.s

C16_WritePastCapacityIsEndOfStream == [][C16_WriteStep]_vars

\* C17: a typed read of width w fails with EndOfStreamError and leaves the
\* position when fewer than w bytes remain before the length, the position
\* past the length included; otherwise it advances the position by w.
C17_ReadStep ==
    \A op \in {"readByte", "readInt16", "readInt32", "readInt64", "readFloat",
               "readDouble"} :
        (stream'.op = op /\ stream'.writes = stream.writes)
            => IF stream.s.length - stream.s.position < WidthOf(op)
               THEN stream'.err = EndOfStreamError
                        /\ stream'.s.position = stream.s.position
               ELSE stream'.err = NoError
                        /\ stream'.s.position = stream.s.position + WidthOf(op)

C17_TypedReadsCheckTheirWidth == [][C17_ReadStep]_vars

\* C17 witness: readDouble failed with the position past the length.
C17_Witness ==
    /\ stream.op = "readDouble" /\ stream.err = EndOfStreamError
    /\ stream.s.position > stream.s.length

-----------------------------------------------------------------------------
(* NbtCompound.has(tag) on the tree.                                       *)

\* has(nameOrTag) given a tag: whether the compound holds a tag under the
\* name of the tag given.
has(c, t) ==
    IF name[t] # Undefined THEN name[t] \in names(c)
    ELSE FALSE

Has ==
    \E c \in Compounds, t \in Tags :
        /\ last' = [op |-> "has", ok |-> TRUE, err |-> NoError, ret |-> has(c, t),
                    compound |-> c, tag |-> t]
        /\ UNCHANGED <<name, parent, ctags, ltags, listType, codec, stream, scalar>>

\* The tree under every operation, has included.
NextWithHas == Next \/ Has

SpecHas == Init /\ [][NextWithHas]_vars

\* C19: has(tag) is true exactly when the tag given is itself a child of the
\* compound; another tag of the same name does not count.
C19_HasIsByIdentity ==
    last.op = "has" => (last.ret <=> last.tag \in tagsOf(last.compound))

-----------------------------------------------------------------------------
(* The bytes of an uncompressed file, written out from the format.         *)

\* Two and four bytes of a number in the byte order of the file.
InOrder(bigEndian, bytes) == IF bigEndian THEN bytes ELSE Reverse(bytes)

RECURSIVE Concat(_)
Concat(seqs) == IF seqs = <<>> THEN <<>> ELSE Head(seqs) \o Concat(Tail(seqs))

\* A name or a text: its length in two bytes, then its bytes.
TextBytes(bigEndian, text) == InOrder(bigEndian, BytesOf16(Len(text))) \o text

RECURSIVE PayloadBytes(_, _)
\* A named tag: the type in one byte, the name, the payload.
NamedTagBytes(bigEndian, tag) ==
    <<tag.type>> \o TextBytes(bigEndian, tag.name) \o PayloadBytes(bigEndian, tag)

PayloadBytes(bigEndian, tag) ==
    CASE tag.type = TagByte -> <<ToU8(tag.value[1])>>
      [] tag.type = TagShort -> InOrder(bigEndian, BytesOf16(tag.value[1]))
      [] tag.type = TagInt -> InOrder(bigEndian, BytesOf32(tag.value[1]))
      [] tag.type = TagLong -> tag.value
      [] tag.type = TagString -> TextBytes(bigEndian, tag.value)
      [] tag.type = TagCompound ->
            Concat([i \in 1 .. Len(tag.tags) |-> NamedTagBytes(bigEndian, tag.tags[i])])
                \o <<TagEnd>>
      [] tag.type = TagList ->
            <<tag.listType>> \o InOrder(bigEndian, BytesOf32(Len(tag.tags)))
                \o Concat([i \in 1 .. Len(tag.tags) |-> PayloadBytes(bigEndian, tag.tags[i])])

EmptyRoot == Named(NbtCompound(<<>>), <<>>)

\* C20: without compression a saved file is the root as type byte, name with
\* its length in two bytes, and payload; so is every child of a compound,
\* whose body ends with one zero byte; a list is its element type, its count
\* in four bytes and the payloads alone.  The empty root "" is 0A 00 00 00 and
\* those bytes load as a root "" without children.
C20_EncodingFormat ==
    /\ (codec.phase = "saved" /\ codec.saveErr = NoError)
          => codec.buffer = NamedTagBytes(codec.bigEndian, codec.rootTag)
    /\ (codec.phase = "saved" /\ codec.rootTag = EmptyRoot)
          => codec.saveErr = NoError /\ codec.buffer = <<10, 0, 0, 0>>
    /\ (codec.phase = "loaded" /\ codec.buffer = <<10, 0, 0, 0>>)
          => codec.loadErr = NoError /\ codec.result = EmptyRoot

\* C20 witness: a file was saved whose root holds a list of two elements and a
\* compound with a child.
C20_Witness ==
    /\ codec.phase = "saved" /\ codec.saveErr = NoError
    /\ \E i, j \in 1 .. Len(codec.rootTag.tags) :
          /\ codec.rootTag.tags[i].type = TagList
          /\ Len(codec.rootTag.tags[i].tags) = 2
          /\ codec.rootTag.tags[j].type = TagCompound
          /\ Len(codec.rootTag.tags[j].tags) = 1

\* C20 witness of the empty root: 0A 00 00 00 was loaded.
C20_WitnessEmptyRoot ==
    codec.phase = "loaded" /\ codec.buffer = <<10, 0, 0, 0>> /\ codec.result = EmptyRoot

-----------------------------------------------------------------------------
\* C21: clone() of a tag returns a copy of it: the same type, name, value,
\* tags in the same order and listType.
C21_CloneIsDeepCopy ==
    codec.phase = "cloned" => codec.loadErr = NoError /\ codec.result = codec.rootTag

-----------------------------------------------------------------------------
(* NbtBinaryStream under its properties position, length, capacity and     *)
(* buffer, seek from every origin, skip, the reads of strings and bytes,   *)
(* and writes: a stream of its own buffer, or one wrapping a region of a   *)
(* buffer that starts at an index.                                         *)

MaxStores == 2
MaxAccessAt == 4

\* NbtBinaryStream.from(buffer, index, count, bigEndian), index and count
\* within the buffer.
StreamFromAt(buffer, index, count, bigEndian) ==
    [bigEndian |-> bigEndian, buffer |-> buffer, capacity |-> index + count,
     expandable |-> FALSE, length |-> index + count, origin |-> index, position |-> index]

\* get position(), get length(), get capacity()
GetPosition(s) == s.position - s.origin
GetLength(s) == s.length - s.origin
GetCapacity(s) == s.capacity - s.origin

\* set position(value)
SetPosition(s, value) ==
    IF value < 0 \/ value > MAX_LENGTH THEN Fail(s, RangeErr)
    ELSE Ok([s EXCEPT !.position = s.origin + value], 0)

\* set length(value), the position left where it is.
SetLengthUnclamped(s, value) ==
    IF value < 0 \/ value > MAX_LENGTH THEN Fail(s, RangeErr)
    ELSE Then(ensureCapacity(s, s.origin + value), LAMBDA r :
              Ok([r.s EXCEPT !.length = s.origin + value], 0))

\* set length(value)
SetLength(s, value) ==
    IF value < 0 \/ value > MAX_LENGTH THEN Fail(s, RangeErr)
    ELSE Then(ensureCapacity(s, s.origin + value), LAMBDA r :
              Ok([r.s EXCEPT !.length = s.origin + value,
                             !.position = IF @ > s.origin + value THEN s.origin + value
                                          ELSE @], 0))

\* skip(bytesToSkip)
skip(s, bytesToSkip) ==
    IF bytesToSkip < 0 THEN Fail(s, RangeErr)
    ELSE Ok([s EXCEPT !.position = @ + bytesToSkip], 0)

\* skipString()
skipString(s) ==
    Then(readInt16(s), LAMBDA r :
         IF r.v < 0 THEN Fail(r.s, PlainError) ELSE skip(r.s, r.v))

\* The buffers wrapped, from index 0 or 2 to their end: a string of three
\* bytes announced with one byte left, and a string that is all there.
RegionBuffers == {<<0, 3, 65>>, <<9, 9, 0, 1, 66, 7>>}
RegionIndexes == {0, 2}

PositionInputs == {-1, 0, 3}
LengthInputs == {-1, 0, 4}
CapacityInputs == {-1, 8}
SeekInputs == {-1, 2}
SeekOrigins == {SeekBegin, SeekCurrent, SeekEnd}
SkipInputs == {-1, 1}
CountInputs == {-1, 2}

\* The stream, the last call on it with the value it returned and the error
\* it threw, the position and length it met, and the writes counted.
Opened(s) ==
    [phase |-> "stream", s |-> s, op |-> "new", v |-> <<>>, err |-> NoError,
     prior |-> [position |-> s.position, length |-> s.length], writes |-> 0]

AccessInit ==
    /\ TreeInit
    /\ codec = CodecIdle
    /\ scalar = ScalarIdle
    /\ \/ \E bigEndian \in BOOLEAN : stream = Opened(NewStream(bigEndian))
       \/ \E buffer \in RegionBuffers, index \in RegionIndexes :
             stream = Opened(StreamFromAt(buffer, index, Len(buffer) - index, TRUE))

Accessed(op, v, r, writes) ==
    /\ stream' = [phase |-> "stream", s |-> r.s, op |-> op,
                  v |-> IF r.err = NoError THEN v ELSE <<>>, err |-> r.err,
                  prior |-> [position |-> stream.s.position, length |-> stream.s.length],
                  writes |-> stream.writes + writes]
    /\ UNCHANGED <<name, parent, ctags, ltags, listType, last, codec, scalar>>

PositionAssign ==
    \E value \in PositionInputs :
        Accessed("position", <<value>>, SetPosition(stream.s, value), 0)

LengthAssign ==
    \E value \in LengthInputs :
        Accessed("length", <<value>>, SetLength(stream.s, value), 0)

CapacityAssign ==
    \E value \in CapacityInputs :
        Accessed("capacity", <<value>>, SetCapacity(stream.s, value), 0)

\* seek(offset, origin): v is the number returned.
SeekFrom ==
    \E offset \in SeekInputs, origin \in SeekOrigins :
        /\ stream.s.position <= MaxAccessAt
        /\ LET r == seek(stream.s, offset, origin) IN Accessed("seek", <<r.v>>, r, 0)

Skip ==
    \E bytesToSkip \in SkipInputs :
        /\ stream.s.position <= MaxAccessAt
        /\ Accessed("skip", <<>>, skip(stream.s, bytesToSkip), 0)

SkipString == Accessed("skipString", <<>>, skipString(stream.s), 0)

ReadString == LET r == readString(stream.s) IN Accessed("readString", r.v, r, 0)

ReadBytes ==
    \E count \in CountInputs :
        LET r == readBytes(stream.s, count) IN Accessed("readBytes", r.v, r, 0)

ReadByte == LET r == readByte(stream.s) IN Accessed("readByte", <<r.v>>, r, 0)

ReadInt16 == LET r == readInt16(stream.s) IN Accessed("readInt16", <<r.v>>, r, 0)

WriteByte ==
    /\ stream.writes < MaxStores
    /\ stream.s.position <= MaxAccessAt
    /\ Accessed("writeByte", <<>>, writeByte(stream.s, 17), 1)

WriteInt16 ==
    /\ stream.writes < MaxStores
    /\ stream.s.position <= MaxAccessAt
    /\ Accessed("writeInt16", <<>>, writeInt16(stream.s, 4386), 1)

\* stream.buffer
GetBuffer == Accessed("buffer", StreamBuffer(stream.s), Ok(stream.s, 0), 0)

AccessNext ==
    \/ PositionAssign \/ LengthAssign \/ CapacityAssign \/ SeekFrom \/ Skip \/ SkipString
    \/ ReadString \/ ReadBytes \/ ReadByte \/ ReadInt16 \/ WriteByte \/ WriteInt16
    \/ GetBuffer

SpecAccess == AccessInit /\ [][AccessNext]_vars

\* C22: origin <= length <= capacity and position >= origin in every state,
\* whatever was called and whether it failed; a length assigned below the
\* position brings the position to the new length.
C22_Bounds ==
    /\ stream.s.origin <= stream.s.length
    /\ stream.s.length <= stream.s.capacity
    /\ stream.s.position >= stream.s.origin

C22_LengthStep ==
    (stream'.op = "length" /\ stream'.err = NoError)
        => stream'.s.position = IF stream.s.position > stream'.s.length
                                THEN stream'.s.length ELSE stream.s.position

C22_StreamBoundsHold == [] C22_Bounds /\ [][C22_LengthStep]_vars

\* C22 witness: a length was assigned below the position, which came down
\* to it.
C22_Witness ==
    /\ stream.op = "length" /\ stream.err = NoError
    /\ stream.prior.position > stream.s.length
    /\ stream.s.position = stream.s.length

\* C23: a write that starts past the length of an expandable stream leaves
\* zero in every byte from the old length to where it started, and the length
\* where it ended.
C23_WriteStep ==
    (/\ stream'.op \in {"writeByte", "writeInt16"}
     /\ stream'.writes = stream.writes + 1
     /\ stream'.err = NoError
     /\ stream.s.expandable
     /\ stream.s.position > stream.s.length)
        => /\ \A i \in stream.s.length + 1 .. stream.s.position : stream'.s.buffer[i] = 0
           /\ stream'.s.length = stream.s.position + WidthOf(stream'.op)

C23_GapIsZeroFilled == [][C23_WriteStep]_vars

\* C23 witness: the second write started past the length, in a buffer that
\* was not allocated anew for it.
C23_Witness ==
    /\ stream.op \in {"writeByte", "writeInt16"} /\ stream.err = NoError
    /\ stream.s.expandable
    /\ stream.writes = 2
    /\ stream.prior.position > stream.prior.length
    /\ stream.s.buffer[stream.prior.length + 1] = 0

\* C24: seek returns the position, as the position property gives it next.
C24_SeekReturnsPosition ==
    (stream.op = "seek" /\ stream.err = NoError) => stream.v = <<GetPosition(stream.s)>>

\* C25: the buffer property is the bytes from the origin to the length,
\* wherever the position is.
C25_BufferIsAllData ==
    stream.op = "buffer"
        => stream.v = SubSeq(stream.s.buffer, stream.s.origin + 1, stream.s.length)

\* C28: a read that succeeds from a position within the length leaves the
\* position within the length.
C28_ReadStep ==
    (/\ stream'.op \in {"readByte", "readBytes", "readInt16", "readString"}
     /\ stream'.err = NoError
     /\ stream.s.position <= stream.s.length)
        => stream'.s.position <= stream'.s.length

C28_ReadsStayWithinLength == [][C28_ReadStep]_vars

-----------------------------------------------------------------------------
\* C26: insert(index, tag) of a tag the list would take, at an index below 0
\* or above the length, fails with RangeError and leaves the members, the
\* listType and the parent of the tag as they were.
C26_InsertStep ==
    \A l \in Lists, t \in Tags :
        \A index \in {-1, Len(ltags[l]) + 1} :
            (ElementError(l, t, parent, listType[l]) = NoError /\ insert(l, index, t))
                => /\ last'.err = RangeErr
                   /\ UNCHANGED <<ltags, listType, parent>>

C26_InsertChecksIndex == [][C26_InsertStep]_vars

\* C27: every child of a compound is stored under its current name: get of
\* its name returns it, and names is the set of the children's names.
C27_KeysAreCurrentNames ==
    \A c \in Compounds :
        /\ \A t \in tagsOf(c) : name[t] # Undefined /\ get(c, name[t]) = t
        /\ names(c) = {name[t] : t \in tagsOf(c)}

\* C30: a push that fails on one of its arguments leaves the members, the
\* listType and the parent of every argument as they were.
C30_PushStep ==
    \A l \in Lists, ts \in PushInputs :
        (push(l, ts) /\ last'.err # NoError) => UNCHANGED <<ltags, listType, parent>>

C30_PushIsAllOrNothing == [][C30_PushStep]_vars

-----------------------------------------------------------------------------
(* The decoding specification: NbtFile.from on an uncompressed buffer, one  *)
(* step per loop iteration.  The root loop of from and the compound and    *)
(* list loops of #readTag are kept as a stack of frames, the innermost     *)
(* loop last; the tags that are no containers are read in one piece by     *)
(* readTag.                                                                *)

\* The loop over the children of a compound (the root included): childType is
\* the type the next iteration reads with, names the names added so far.
CompoundFrame(childType, tagName) ==
    [kind |-> TagCompound, type |-> childType, name |-> tagName, names |-> {},
     i |-> 0, length |-> 0]

\* The loop over the items of a list: for (i = 0; i < length; i++).
ListFrame(type, tagName, length) ==
    [kind |-> TagList, type |-> type, name |-> tagName, names |-> {},
     i |-> 0, length |-> length]

\* #readTag of a container up to its loop: a compound reads its first child
\* type, a list its listType and its length.
Open(type, tagName, reader) ==
    IF type = TagCompound
    THEN Then(readTagType(reader), LAMBDA t : Ok(t.s, CompoundFrame(t.v, tagName)))
    ELSE Then(readTagType(reader), LAMBDA t :
         Then(readInt32(t.s), LAMBDA n :
              IF n.v < 0 THEN Fail(n.s, NbtFormatError)
              ELSE Ok(n.s, ListFrame(t.v, tagName, n.v))))

\* The rest of an iteration once the child is read: the filter is asked; in a
\* compound a rejected child makes the loop continue with the same child
\* type, an accepted one is added and the next type is read; in a list the
\* loop goes on to the next item either way.
Admit(frame, reader, filter, child) ==
    IF frame.kind = TagList THEN Ok(reader, [frame EXCEPT !.i = @ + 1])
    ELSE IF Rejected(filter, child) THEN Ok(reader, frame)
    ELSE IF child.name \in frame.names THEN Fail(reader, PlainError)
    ELSE Then(readTagType(reader), LAMBDA t :
              Ok(t.s, [frame EXCEPT !.type = t.v, !.names = @ \cup {child.name}]))

\* The call in progress, and the call that has thrown.  continued says that
\* some loop has taken its continue.
Decoding(reader, filter, stack, op, continued) ==
    [phase |-> "decoding", reader |-> reader, filter |-> filter, stack |-> stack,
     op |-> op, continued |-> continued, err |-> NoError]

Thrown(r, filter, op, continued) ==
    [phase |-> "failed", reader |-> r.s, filter |-> filter, stack |-> <<>>,
     op |-> op, continued |-> continued, err |-> r.err]

\* An iteration that has read its child: the frame is replaced.
Admitted(d, op, r, child) ==
    IF r.err # NoError
    THEN Thrown(r, d.filter, op, d.continued)
    ELSE Decoding(r.s, d.filter, [d.stack EXCEPT ![Len(d.stack)] = r.v], op,
                  d.continued \/ Rejected(d.filter, child))

Innermost(d) == d.stack[Len(d.stack)]

LoopEnded(frame) ==
    IF frame.kind = TagCompound THEN frame.type = TagEnd ELSE frame.i >= frame.length

\* Inputs: buffers written by hand, each cut at every length.
\* root { a: Byte 5, (Byte) b: 7 }: after a rejected a, b is read as a Byte.
TwoBytes == <<10, 0, 0, 1, 0, 1, 97, 5, 0, 1, 98, 7, 0>>
\* root { a: List<End>[1] }
ListOfEnd == <<10, 0, 0, 9, 0, 1, 97, 0, 0, 0, 0, 1, 0>>
\* root { a: List<Byte>[2147483647] } with three bytes behind the length
ListTooLong == <<10, 0, 0, 9, 0, 1, 97, 1, 127, 255, 255, 255, 1, 2, 0>>
\* root { a: List<Byte>[-1] }
ListNegative == <<10, 0, 0, 9, 0, 1, 97, 1, 255, 255, 255, 255, 0>>
\* root { a: List<List>[ List<Byte>[5], List<Compound>[] ] }
ListOfLists ==
    <<10, 0, 0, 9, 0, 1, 97, 9, 0, 0, 0, 2, 1, 0, 0, 0, 1, 5, 10, 0, 0, 0, 0, 0>>
\* root { a: List<Compound>[ { a: Byte 5 }, { } ] }
ListOfCompounds ==
    <<10, 0, 0, 9, 0, 1, 97, 10, 0, 0, 0, 2, 1, 0, 1, 97, 5, 0, 0, 0>>
\* root { c: { a: Byte 5 }, s: "h" }
Nested == <<10, 0, 0, 10, 0, 1, 99, 1, 0, 1, 97, 5, 0, 8, 0, 1, 115, 0, 1, 104, 0>>

Prefixes(b) == {SubSeq(b, 1, n) : n \in 0 .. Len(b)}

DecodeBuffers ==
    UNION {Prefixes(b) : b \in {TwoBytes, ListOfEnd, ListTooLong, ListNegative,
                                ListOfLists, ListOfCompounds, Nested}}

DecodeFilters ==
    {NoFilter} \cup
    {[defined |-> TRUE, types |-> T, names |-> N] :
        <<T, N>> \in {<<{}, {}>>, <<{}, {<<97>>}>>, <<{TagByte}, {}>>,
                      <<{TagCompound}, {}>>, <<{TagList}, {}>>, <<AllTagTypes, {}>>}}

\* NbtFile.from up to the root loop: the first byte, the root's name, the
\* first tag type.
DecodeStart ==
    \E buffer \in DecodeBuffers, bigEndian \in BOOLEAN, filter \in DecodeFilters :
        /\ codec = CodecIdle
        /\ LET r == Then(readByte(StreamFrom(buffer, bigEndian)), LAMBDA firstByte :
                         IF firstByte.v < 0 THEN Fail(firstByte.s, PlainError)
                         ELSE IF firstByte.v # TagCompound
                         THEN Fail(firstByte.s, PlainError)
                         ELSE Then(readString(firstByte.s), LAMBDA n :
                              Then(readTagType(n.s), LAMBDA t :
                                   Ok(t.s, CompoundFrame(t.v, n.v))))) IN
           codec' = IF r.err # NoError THEN Thrown(r, filter, "from", FALSE)
                    ELSE Decoding(r.s, filter, <<r.v>>, "from", FALSE)
        /\ UNCHANGED <<name, parent, ctags, ltags, listType, last, stream, scalar>>

\* One iteration of the innermost loop, up to the loop of the container it
\* reads, or to its own end.  A compound loop reads the child's name first.
Iteration(d, frame, n) ==
    IF n.err # NoError THEN Thrown(n, d.filter, "iteration", d.continued)
    ELSE IF frame.type \in {TagCompound, TagList}
    THEN LET r == Open(frame.type, n.v, n.s) IN
         IF r.err # NoError THEN Thrown(r, d.filter, "iteration", d.continued)
         ELSE Decoding(r.s, d.filter, Append(d.stack, r.v), "iteration", d.continued)
    ELSE LET c == readTag(frame.type, n.s, d.filter) IN
         IF c.err # NoError THEN Thrown(c, d.filter, "iteration", d.continued)
         ELSE Admitted(d, "iteration",
                       Admit(frame, c.s, d.filter, [type |-> frame.type, name |-> n.v]),
                       [type |-> frame.type, name |-> n.v])

Iterate ==
    /\ codec.phase = "decoding"
    /\ ~LoopEnded(Innermost(codec))
    /\ codec' = Iteration(codec, Innermost(codec),
                          IF Innermost(codec).kind = TagCompound
                          THEN readString(codec.reader)
                          ELSE Ok(codec.reader, Unnamed))
    /\ UNCHANGED <<name, parent, ctags, ltags, listType, last, stream, scalar>>

\* The innermost loop has ended: from returns the file, or #readTag returns
\* the container to the iteration that asked for it.
Returned(d, frame) ==
    IF Len(d.stack) = 1
    THEN [d EXCEPT !.phase = "returned", !.op = "return", !.stack = <<>>]
    ELSE LET outer == [d EXCEPT !.stack = SubSeq(@, 1, Len(@) - 1)] IN
         Admitted(outer, "return",
                  Admit(Innermost(outer), d.reader, d.filter,
                        [type |-> frame.kind, name |-> frame.name]),
                  [type |-> frame.kind, name |-> frame.name])

EndOfLoop ==
    /\ codec.phase = "decoding"
    /\ LoopEnded(Innermost(codec))
    /\ codec' = Returned(codec, Innermost(codec))
    /\ UNCHANGED <<name, parent, ctags, ltags, listType, last, stream, scalar>>

DecodeNext == DecodeStart \/ Iterate \/ EndOfLoop

SpecDecode == Init /\ [][DecodeNext]_vars

\* from is one synchronous call: while it has a step to take, it takes it.
SpecDecodeFair == SpecDecode /\ WF_vars(DecodeNext)

DecodeEnded == codec.phase \in {"returned", "failed"}

\* The steps end as the call does when its loops are run in one piece.
DecodeStepsAgree ==
    DecodeEnded =>
        LET r == from(codec.reader.buffer, codec.reader.bigEndian, codec.filter) IN
            /\ r.err = codec.err
            /\ r.s.position = codec.reader.position

C29_IterationStep ==
    (codec.phase = "decoding" /\ codec'.op = "iteration") =>
        \/ codec'.phase = "failed"
        \/ codec'.reader.position > codec.reader.position

\* C29: decoding an uncompressed buffer terminates, with or without a filter:
\* every iteration of the root loop, of a compound loop and of a list loop
\* consumes at least one byte of the stream or fails, and the call ends with
\* a file returned or an error thrown.
C29_DecodingTerminates == <>DecodeEnded /\ [][C29_IterationStep]_vars

\* A call that returns a file after one of its loops has taken its continue.
C29_Witness == codec.phase = "returned" /\ codec.continued

====
